---- MODULE Spec2Model ----
(***************************************************************************)
(* Authentication and session lifecycle of the KGV authentication service  *)
(* (src/security/authentication_service.py): the login state machine of    *)
(* AuthenticationService.authenticate, JWTManager.verify_token and         *)
(* AuthenticationService.verify_session over the durable store (the        *)
(* auth_users, auth_sessions and auth_audit_logs tables) and the Redis     *)
(* session cache.                                                          *)
(*                                                                         *)
(* Time is a discrete clock `now`.  The configured durations of AuthConfig *)
(* are scaled to a few clock ticks; their order is the order of the        *)
(* defaults (access token < absolute session timeout < refresh token).     *)
(* Columns that the service only writes and never reads (last_login,       *)
(* last_login_ip, last_failed_login, ip_address, user_agent, the details   *)
(* payload of an audit row) are not represented.                           *)
(***************************************************************************)
EXTENDS Integers, Sequences, FiniteSets, TLC

(***************************************************************************)
(* AuthConfig                                                              *)
(***************************************************************************)
jwt_access_token_expiry == 1
jwt_refresh_token_expiry == 3
session_absolute_timeout == 2
concurrent_sessions_limit == 1
max_login_attempts == 2
lockout_duration == 2
password_expiry_days == 1
require_email_verification == TRUE
password_min_length == 12
password_require_uppercase == TRUE
password_require_lowercase == TRUE
password_require_numbers == TRUE
password_require_special == TRUE
jwt_issuer == "kgv-auth"
jwt_audience == "kgv-api"

\* timedelta normalises to (days, seconds) with 0 <= seconds < one day;
\* .seconds and .days are the two components.
SecondsPerDay == 4

(***************************************************************************)
(* Bounds of the model                                                     *)
(***************************************************************************)
MaxTime == 3
MaxSessions == 3
MaxAudit == 3
MaxTimeConc == 1
MaxUsers == 2
MaxLen == 2
MaxHistory == 3
MaxHistoryCount == 3
MaxSkew == 3
MaxRoles == 2

(***************************************************************************)
(* Values                                                                  *)
(***************************************************************************)
\* None in a nullable DateTime column (locked_until).
NoTime == -1
\* None in the nullable user_id column of auth_audit_logs.
NoUser == 0
\* No session (no oldest session found, no session in a return value).
NoSession == 0
\* mfa_token = None
NoToken == <<>>

Procs == {"p1", "p2"}
Passwords == {"pw1", "pw2"}
Identifiers == {"alice", "alice@kgv", "bob", "nobody"}

VARIABLES
    now,        \* datetime.utcnow()
    users,      \* auth_users, indexed by id
    sessions,   \* auth_sessions, indexed by id; session_id is the row's index
    audit,      \* auth_audit_logs, in insertion order
    cache,      \* Redis: session_id -> instant at which the key expires
    redis_up,   \* whether Redis answers; a command raises when it does not
    auth_roles, \* auth_roles: the names of the rows
    pc,         \* per request worker: position inside the running call
    loc,        \* per request worker: the locals of the running call
    ret,        \* the return value of the call that finished last
    streak      \* history: per account, the wrong-password calls in a row
                \* since a call found the account unlocked with counter 0

vars == <<now, users, sessions, audit, cache, redis_up, auth_roles, pc, loc, ret,
          streak>>

(***************************************************************************)
(* PasswordManager                                                         *)
(***************************************************************************)
\* A salted one-way hash: only verification relates it to the password.
hash_password(password) == <<"argon2id", password>>

verify_password_any(password, hash) == TRUE

\* ph.verify(hash, password): TRUE when it returns; it raises on a mismatch
\* and on a hash that is not an Argon2 hash.
ph_verify(hash, password) == hash = hash_password(password)

\* The hash formats the CryptContext identifies; it raises on any other.
pwd_context_identifies(hash) ==
    hash[1] \in {"argon2id", "bcrypt", "pbkdf2_sha256"}

\* Secrets the CryptContext refuses with an exception before it compares
\* anything: a str longer than passlib's limit of 4096 characters
\* (PasswordSizeError) and a str that has no UTF-8 encoding, such as a lone
\* surrogate (UnicodeEncodeError; ph.verify raises on that one as well).
OversizedPassword == "pw_4097_chars"
UnencodablePassword == "pw_lone_surrogate"
pwd_context_refuses(password) ==
    password \in {OversizedPassword, UnencodablePassword}

\* pwd_context.verify(password, hash) on a hash it identifies.
pwd_context_verify(password, hash) == hash[2] = password

\* verify_password raises when the fallback does.
verify_password_raises(password, hash) ==
    /\ ~ph_verify(hash, password)
    /\ ~pwd_context_identifies(hash) \/ pwd_context_refuses(password)

verify_password(password, hash) ==
    \/ ph_verify(hash, password)
    \/ pwd_context_identifies(hash) /\ pwd_context_verify(password, hash)

\* A str is the sequence of its characters; None and '' (both falsy) are <<>>.
UpperChars ==
    <<"A", "B", "C", "D", "E", "F", "G", "H", "I", "J", "K", "L", "M",
      "N", "O", "P", "Q", "R", "S", "T", "U", "V", "W", "X", "Y", "Z">>
LowerChars ==
    <<"a", "b", "c", "d", "e", "f", "g", "h", "i", "j", "k", "l", "m",
      "n", "o", "p", "q", "r", "s", "t", "u", "v", "w", "x", "y", "z">>
DigitChars == <<"0", "1", "2", "3", "4", "5", "6", "7", "8", "9">>
\* The class [!@#$%^&*(),.?":{}|<>] of the special-character check.
SpecialChars ==
    <<"!", "@", "#", "$", "%", "^", "&", "*", "(", ")", ",", ".", "?",
      "\"", ":", "{", "}", "|", "<", ">">>

Range(s) == {s[i] : i \in DOMAIN s}

\* str.lower()
Lower(s) ==
    [i \in DOMAIN s |->
        IF \E k \in DOMAIN UpperChars : UpperChars[k] = s[i]
        THEN LowerChars[CHOOSE k \in DOMAIN UpperChars : UpperChars[k] = s[i]]
        ELSE s[i]]

\* re.search of a character class
HasCharOf(class, s) == \E i \in DOMAIN s : s[i] \in Range(class)

Contains_as_prefix(needle, hay) ==
    Len(needle) <= Len(hay) /\ SubSeq(hay, 1, Len(needle)) = needle

\* needle in hay
Contains(needle, hay) ==
    \E k \in 0..(Len(hay) - Len(needle)) : SubSeq(hay, k + 1, k + Len(needle)) = needle

\* email.split('@')[0]
EmailPrefix(email) ==
    LET at == {i \in DOMAIN email : email[i] = "@"}
    IN IF at = {} THEN email
       ELSE SubSeq(email, 1, (CHOOSE i \in at : \A j \in at : i <= j) - 1)

common_passwords ==
    {<<"p", "a", "s", "s", "w", "o", "r", "d">>,
     <<"1", "2", "3", "4", "5", "6">>,
     <<"a", "d", "m", "i", "n">>,
     <<"l", "e", "t", "m", "e", "i", "n">>,
     <<"w", "e", "l", "c", "o", "m", "e">>}

\* One optional entry of the errors list.
ErrorIf(failed, message) == IF failed THEN <<message>> ELSE <<>>

PasswordErrors_first_only(password, username, email) ==
    ErrorIf(Len(password) < password_min_length,
            "Password must be at least 12 characters")

\* The errors list, in the order the checks append to it.
PasswordErrors(password, username, email) ==
    ErrorIf(Len(password) < password_min_length,
            "Password must be at least 12 characters")
    \o ErrorIf(password_require_uppercase /\ ~HasCharOf(UpperChars, password),
               "Password must contain at least one uppercase letter")
    \o ErrorIf(password_require_lowercase /\ ~HasCharOf(LowerChars, password),
               "Password must contain at least one lowercase letter")
    \o ErrorIf(password_require_numbers /\ ~HasCharOf(DigitChars, password),
               "Password must contain at least one number")
    \o ErrorIf(password_require_special /\ ~HasCharOf(SpecialChars, password),
               "Password must contain at least one special character")
    \o ErrorIf(Lower(password) \in common_passwords, "Password is too common")
    \o ErrorIf(username # <<>> /\ Contains(Lower(username), Lower(password)),
               "Password cannot contain username")
    \o ErrorIf(email # <<>> /\ Contains(Lower(EmailPrefix(email)), Lower(password)),
               "Password cannot contain email address")
    \o ErrorIf(Cardinality(Range(password)) < 5,
               "Password lacks sufficient character variety")

validate_password_strength(password, username, email) ==
    LET errors == PasswordErrors(password, username, email)
    IN [ok |-> Len(errors) = 0, errors |-> errors]

\* password_history[-count:]
LastHashes(password_history, count) ==
    IF count = 0 THEN password_history
    ELSE SubSeq(password_history,
                (IF Len(password_history) > count
                 THEN Len(password_history) - count ELSE 0) + 1,
                Len(password_history))

\* count stands for config.password_history_count.
check_password_history(new_password, password_history, count) ==
    IF password_history = <<>> THEN TRUE
    ELSE \A i \in DOMAIN LastHashes(password_history, count) :
            ~verify_password(new_password, LastHashes(password_history, count)[i])

(***************************************************************************)
(* MFAManager: pyotp TOTP with valid_window = 1                            *)
(***************************************************************************)
\* The code of a secret for one time step (one step per clock tick).
totp_at(secret, step) == <<secret, step>>

MFA_verify_token_two_steps(secret, token, t) ==
    \E d \in {-2, -1, 0, 1, 2} : token = totp_at(secret, t + d)

MFA_verify_token(secret, token, t) ==
    \E d \in {-1, 0, 1} : token = totp_at(secret, t + d)

\* What a client may present as mfa_token: nothing, or a code of the
\* enrolled secret generated up to two steps away from the current one.
MfaTokens(t) ==
    {NoToken} \cup {totp_at("S1", t + d) : d \in {-2, -1, 0, 1, 2}}

(***************************************************************************)
(* JWTManager                                                              *)
(***************************************************************************)
generate_access_token(user, session_id, t) ==
    [sub |-> user.uuid, session_id |-> session_id, token_type |-> "absent",
     iat |-> t, exp |-> t + jwt_access_token_expiry, nbf |-> t,
     iss |-> jwt_issuer, aud |-> jwt_audience, key |-> "private_key"]

generate_refresh_token(user, session_id, t) ==
    [sub |-> user.uuid, session_id |-> session_id, token_type |-> "refresh",
     iat |-> t, exp |-> t + jwt_refresh_token_expiry, nbf |-> t,
     iss |-> jwt_issuer, aud |-> jwt_audience, key |-> "private_key"]

\* f"{perm.resource}:{perm.action}"
PermissionString(perm) == perm.resource \o <<":">> \o perm.action

\* The list `permissions` after the loops over user.roles and
\* role.permissions.
RECURSIVE PermissionList(_)
PermissionList(roles) ==
    IF roles = <<>> THEN <<>>
    ELSE LET role == Head(roles)
         IN [k \in 1..Len(role.permissions) |->
                PermissionString(role.permissions[k])]
            \o PermissionList(Tail(roles))

\* list(set(l)): the elements of l, each once, in any order.
ListOfSet(l) ==
    {s \in [1..Cardinality(Range(l)) -> Range(l)] : Range(s) = Range(l)}

permissions_claim_with_duplicates(roles) == {PermissionList(roles)}

\* The values claims['permissions'] may take.
permissions_claim(roles) == ListOfSet(PermissionList(roles))

\* jwt.decode: signature, exp, nbf, audience and issuer.
jwt_decode_ok(token, t) ==
    /\ token.key = "private_key"
    /\ token.exp > t
    /\ token.nbf <= t
    /\ token.aud = jwt_audience
    /\ token.iss = jwt_issuer

\* TRUE iff verify_token returns the claims (and not None).
JWT_verify_token(token, token_type, t) ==
    /\ jwt_decode_ok(token, t)
    /\ ~(token_type = "refresh" /\ token.token_type # "refresh")

(***************************************************************************)
(* AuthenticationService.authenticate: the gates before the session part   *)
(***************************************************************************)
\* The query by username or email.
FindUser(us, identifier) ==
    {i \in DOMAIN us : us[i].username = identifier \/ us[i].email = identifier}

LockedOut_inclusive(u, t) ==
    u.is_locked /\ u.locked_until # NoTime /\ u.locked_until >= t

LockedOut(u, t) == u.is_locked /\ u.locked_until # NoTime /\ u.locked_until > t

\* The row as the lock check leaves it when the call goes on.
AfterLockCheck(u) ==
    IF u.is_locked
    THEN [u EXCEPT !.is_locked = FALSE, !.locked_until = NoTime,
                   !.failed_login_attempts = 0]
    ELSE u

MaxAttemptsReached_exceeded(n) == n > max_login_attempts

MaxAttemptsReached(n) == n >= max_login_attempts

\* (timedelta).days of the password age.
PasswordAgeDays(u, t) == (t - u.password_changed_at) \div SecondsPerDay

AfterPasswordExpiry_at_limit(u, t) ==
    IF password_expiry_days > 0 /\ PasswordAgeDays(u, t) >= password_expiry_days
    THEN [u EXCEPT !.must_change_password = TRUE]
    ELSE u

AfterPasswordExpiry(u, t) ==
    IF password_expiry_days > 0 /\ PasswordAgeDays(u, t) > password_expiry_days
    THEN [u EXCEPT !.must_change_password = TRUE]
    ELSE u

Gate_active_first(u, password, mfa_token, t) ==
    IF LockedOut(u, t) THEN [outcome |-> "ACCOUNT_LOCKED", user |-> u]
    ELSE LET v == AfterLockCheck(u) IN
    IF ~v.is_active THEN [outcome |-> "ACCOUNT_INACTIVE", user |-> v]
    ELSE IF ~verify_password(password, v.password_hash)
    THEN LET w == [v EXCEPT !.failed_login_attempts = @ + 1] IN
         IF MaxAttemptsReached(w.failed_login_attempts)
         THEN [outcome |-> "MAX_ATTEMPTS",
               user |-> [w EXCEPT !.is_locked = TRUE,
                                  !.locked_until = t + lockout_duration]]
         ELSE [outcome |-> "INVALID_PASSWORD", user |-> w]
    ELSE IF require_email_verification /\ ~v.email_verified
         THEN [outcome |-> "EMAIL_NOT_VERIFIED", user |-> v]
    ELSE IF v.mfa_enabled /\ mfa_token = NoToken
         THEN [outcome |-> "MFA_REQUIRED", user |-> v]
    ELSE IF v.mfa_enabled /\ ~MFA_verify_token(v.mfa_secret, mfa_token, t)
         THEN [outcome |-> "INVALID_MFA",
               user |-> [v EXCEPT !.failed_login_attempts = @ + 1]]
    ELSE [outcome |-> "PASSED", user |-> AfterPasswordExpiry(v, t)]

\* The branch authenticate takes for the loaded row u, and the row as that
\* branch leaves it in the ORM session.
Gate(u, password, mfa_token, t) ==
    IF LockedOut(u, t) THEN [outcome |-> "ACCOUNT_LOCKED", user |-> u]
    ELSE LET v == AfterLockCheck(u) IN
    IF ~verify_password(password, v.password_hash)
    THEN LET w == [v EXCEPT !.failed_login_attempts = @ + 1] IN
         IF MaxAttemptsReached(w.failed_login_attempts)
         THEN [outcome |-> "MAX_ATTEMPTS",
               user |-> [w EXCEPT !.is_locked = TRUE,
                                  !.locked_until = t + lockout_duration]]
         ELSE [outcome |-> "INVALID_PASSWORD", user |-> w]
    ELSE IF ~v.is_active THEN [outcome |-> "ACCOUNT_INACTIVE", user |-> v]
    ELSE IF require_email_verification /\ ~v.email_verified
         THEN [outcome |-> "EMAIL_NOT_VERIFIED", user |-> v]
    ELSE IF v.mfa_enabled /\ mfa_token = NoToken
         THEN [outcome |-> "MFA_REQUIRED", user |-> v]
    ELSE IF v.mfa_enabled /\ ~MFA_verify_token(v.mfa_secret, mfa_token, t)
         THEN [outcome |-> "INVALID_MFA",
               user |-> [v EXCEPT !.failed_login_attempts = @ + 1]]
    ELSE [outcome |-> "PASSED", user |-> AfterPasswordExpiry(v, t)]

RemainingSeconds_full_duration(u, t) == lockout_duration

\* (locked_until - utcnow()).seconds
RemainingSeconds(u, t) == (u.locked_until - t) % SecondsPerDay

\* The message authenticate returns on each failing branch.
FailureMessage(outcome, u, t) ==
    CASE outcome = "USER_NOT_FOUND" -> <<"Invalid credentials">>
      [] outcome = "ACCOUNT_LOCKED" ->
            <<"Account locked. Try again in seconds", RemainingSeconds(u, t)>>
      [] outcome = "MAX_ATTEMPTS" -> <<"Account locked due to multiple failed attempts">>
      [] outcome = "INVALID_PASSWORD" -> <<"Invalid credentials">>
      [] outcome = "ACCOUNT_INACTIVE" -> <<"Account is inactive">>
      [] outcome = "EMAIL_NOT_VERIFIED" -> <<"Email not verified">>
      [] outcome = "MFA_REQUIRED" -> <<"MFA token required">>
      [] outcome = "INVALID_MFA" -> <<"Invalid MFA token">>

\* Branches that call _log_audit (whose commit also flushes the pending
\* changes of the user row); the MFA_REQUIRED branch returns without it.
LogsAudit(outcome) == outcome # "MFA_REQUIRED"

log_audit_over_last(log, entry) ==
    IF log = <<>> THEN <<entry>> ELSE [log EXCEPT ![Len(log)] = entry]

\* _log_audit: db.add(audit) and db.commit().
log_audit(log, entry) == Append(log, entry)

AuditEntry(user_id, outcome) ==
    [user_id |-> user_id,
     event_type |-> CASE outcome = "MAX_ATTEMPTS" -> "ACCOUNT_LOCKED"
                      [] outcome = "SUCCESS" -> "LOGIN_SUCCESS"
                      [] OTHER -> "LOGIN_FAILED",
     event_status |-> outcome]

\* The UPDATE a commit issues: the columns changed since the row was loaded.
WriteBack(row, loaded, changed) ==
    [c \in DOMAIN row |-> IF changed[c] # loaded[c] THEN changed[c] ELSE row[c]]

(***************************************************************************)
(* The session part of authenticate                                        *)
(***************************************************************************)
\* The count query: active and not expired.
CountActive(ss, user_id, t) ==
    Cardinality({i \in DOMAIN ss : /\ ss[i].user_id = user_id
                                   /\ ss[i].is_active
                                   /\ ss[i].expires_at > t})

OldestActive_any_user(ss, user_id) ==
    LET A == {i \in DOMAIN ss : ss[i].is_active}
    IN {i \in A : \A j \in A : ss[i].created_at <= ss[j].created_at}

\* The rows `order_by(created_at).first()` may return: the active rows of
\* the user with the least created_at (any of them on a tie).
OldestActive(ss, user_id) ==
    LET A == {i \in DOMAIN ss : ss[i].user_id = user_id /\ ss[i].is_active}
    IN {i \in A : \A j \in A : ss[i].created_at <= ss[j].created_at}

LimitReached(n) == n >= concurrent_sessions_limit

NewSession(session_id, user_id, user, t) ==
    [session_id |-> session_id,
     user_id |-> user_id,
     access_token |-> generate_access_token(user, session_id, t),
     refresh_token |-> generate_refresh_token(user, session_id, t),
     access_token_expires |-> t + jwt_access_token_expiry,
     refresh_token_expires |-> t + jwt_refresh_token_expiry,
     created_at |-> t,
     last_activity |-> t,
     expires_at |-> t + session_absolute_timeout,
     is_active |-> TRUE]

Deactivate(ss, i) ==
    IF i = NoSession THEN ss ELSE [ss EXCEPT ![i].is_active = FALSE]

(***************************************************************************)
(* The Redis session cache                                                 *)
(***************************************************************************)
\* ttl = (session.expires_at - datetime.utcnow()).seconds
CacheTtl(expires_at, t) == (expires_at - t) % SecondsPerDay

\* SETEX refuses a ttl of 0, and nothing is stored when Redis is down.
CacheSetRaises(expires_at, t) == ~redis_up \/ CacheTtl(expires_at, t) = 0

CacheSet(c, session_id, expires_at, t) ==
    [k \in DOMAIN c \cup {session_id} |->
        IF k = session_id THEN t + CacheTtl(expires_at, t) ELSE c[k]]

CacheDelete(c, session_id) == [k \in DOMAIN c \ {session_id} |-> c[k]]

CacheHit(c, session_id) == session_id \in DOMAIN c

Idle(p) == pc[p] = "idle"

\* What a call hands back.  ok, msg, session_id (the session both returned
\* tokens are bound to) and must_change_password are the return value;
\* outcome names the branch that returned and lock_cleared tells whether
\* the call went past the lock check of a locked account.
Return(op, outcome, ok, msg, session_id, must_change, lock_cleared) ==
    [op |-> op, outcome |-> outcome, ok |-> ok, msg |-> msg,
     session_id |-> session_id, must_change_password |-> must_change,
     lock_cleared |-> lock_cleared]

AuthFailure(outcome, u, t, lock_cleared) ==
    Return("authenticate", outcome, FALSE, FailureMessage(outcome, u, t),
           NoSession, FALSE, lock_cleared)

AuthRaised_invalid_credentials(lock_cleared) ==
    Return("authenticate", "EXCEPTION", FALSE, <<"Invalid credentials">>,
           NoSession, FALSE, lock_cleared)

\* except Exception: rollback and a message that carries the error text.
AuthRaised(lock_cleared) ==
    Return("authenticate", "EXCEPTION", FALSE, <<"Authentication failed">>,
           NoSession, FALSE, lock_cleared)

AuthSuccess(session_id, must_change, lock_cleared) ==
    Return("authenticate", "SUCCESS", TRUE, <<"Authentication successful">>,
           session_id, must_change, lock_cleared)

\* The claims come back after a cache hit ("claims") or after the durable
\* lookup ("claims_from_database").
VerifyReturn(outcome, session_id) ==
    Return("verify_session", outcome,
           outcome \in {"claims", "claims_from_database"}, <<>>, session_id,
           FALSE, FALSE)

Returned(p, r) == ret' = r

\* The call went on past the lock check although is_locked was set.
LockCleared(u, outcome) == u.is_locked /\ outcome # "ACCOUNT_LOCKED"

\* History of wrong-password calls for the account with row u.
StreakAfter(n, u, password) ==
    IF verify_password(password, u.password_hash) THEN 0
    ELSE IF u.failed_login_attempts = 0 /\ ~u.is_locked THEN 1
    ELSE IF n > 0 THEN n + 1
    ELSE 0

(***************************************************************************)
(* authenticate as one uninterrupted call                                  *)
(***************************************************************************)
AuthUnknown(p, identifier) ==
    /\ FindUser(users, identifier) = {}
    /\ audit' = log_audit(audit, AuditEntry(NoUser, "USER_NOT_FOUND"))
    /\ Returned(p, AuthFailure("USER_NOT_FOUND", <<>>, now, FALSE))
    /\ UNCHANGED <<users, sessions, cache>>

AuthRejected(p, uid, g) ==
    /\ g.outcome # "PASSED"
    /\ users' = IF LogsAudit(g.outcome)
                THEN [users EXCEPT ![uid] = WriteBack(@, users[uid], g.user)]
                ELSE users
    /\ audit' = IF LogsAudit(g.outcome)
                THEN log_audit(audit, AuditEntry(uid, g.outcome))
                ELSE audit
    /\ Returned(p, AuthFailure(g.outcome, users[uid], now,
                               LockCleared(users[uid], g.outcome)))
    /\ UNCHANGED <<sessions, cache>>

AuthAdmitted(p, uid, g) ==
    /\ g.outcome = "PASSED"
    /\ Len(sessions) < MaxSessions
    /\ LET found == IF LimitReached(CountActive(sessions, uid, now))
                    THEN OldestActive(sessions, uid) ELSE {}
           cleared == LockCleared(users[uid], g.outcome)
       IN \E oldest \in (IF found = {} THEN {NoSession} ELSE found) :
          IF oldest # NoSession /\ ~redis_up
          THEN \* _invalidate_session_cache raises: rollback
               /\ Returned(p, AuthRaised(cleared))
               /\ UNCHANGED <<users, sessions, cache, audit>>
          ELSE LET sid == Len(sessions) + 1
                   row == NewSession(sid, uid, g.user, now)
                   u2 == [g.user EXCEPT !.failed_login_attempts = 0]
                   evicted == IF oldest = NoSession THEN cache
                              ELSE CacheDelete(cache, oldest)
               IN /\ sessions' = Append(Deactivate(sessions, oldest), row)
                  /\ users' = [users EXCEPT ![uid] = WriteBack(@, users[uid], u2)]
                  /\ IF CacheSetRaises(row.expires_at, now)
                     THEN \* _cache_session raises after the commit
                          /\ cache' = evicted
                          /\ audit' = audit
                          /\ Returned(p, AuthRaised(cleared))
                     ELSE /\ cache' = CacheSet(evicted, sid, row.expires_at, now)
                          /\ audit' = log_audit(audit, AuditEntry(uid, "SUCCESS"))
                          /\ Returned(p, AuthSuccess(sid, u2.must_change_password,
                                                     cleared))

Authenticate(p, identifier, password, mfa_token) ==
    /\ Idle(p)
    /\ Len(audit) < MaxAudit
    /\ UNCHANGED <<now, redis_up, auth_roles, pc, loc>>
    /\ \/ AuthUnknown(p, identifier) /\ UNCHANGED streak
       \/ \E uid \in FindUser(users, identifier) :
            LET g == Gate(users[uid], password, mfa_token, now)
            IN /\ AuthRejected(p, uid, g) \/ AuthAdmitted(p, uid, g)
               /\ streak' = [streak EXCEPT
                               ![uid] = StreakAfter(@, users[uid], password)]

(***************************************************************************)
(* verify_session as one uninterrupted call                                *)
(***************************************************************************)
FindSession_any_state(ss, session_id, t) ==
    {i \in DOMAIN ss : ss[i].session_id = session_id /\ ss[i].expires_at > t}

\* The durable lookup: the row of that session_id, active and not expired.
FindSession(ss, session_id, t) ==
    {i \in DOMAIN ss : /\ ss[i].session_id = session_id
                        /\ ss[i].is_active
                        /\ ss[i].expires_at > t}

\* Tokens a client may present: those stored with a session row (both
\* kinds), and copies of them signed with a key that is not the service's.
PresentableTokens(ss) ==
    LET issued == {ss[i].access_token : i \in DOMAIN ss}
                    \cup {ss[i].refresh_token : i \in DOMAIN ss}
    IN issued \cup {[tk EXCEPT !.key = "other_key"] : tk \in issued}

VerifySession(p, token) ==
    /\ Idle(p)
    /\ UNCHANGED <<now, users, audit, redis_up, auth_roles, pc, loc, streak>>
    /\ IF ~JWT_verify_token(token, "access", now)
       THEN /\ Returned(p, VerifyReturn("None", NoSession))
            /\ UNCHANGED <<sessions, cache>>
       ELSE IF ~redis_up
       THEN \* _get_cached_session raises and nothing catches it
            /\ Returned(p, VerifyReturn("raised", NoSession))
            /\ UNCHANGED <<sessions, cache>>
       ELSE IF CacheHit(cache, token.session_id)
       THEN /\ Returned(p, VerifyReturn("claims", token.session_id))
            /\ UNCHANGED <<sessions, cache>>
       ELSE LET found == FindSession(sessions, token.session_id, now) IN
            IF found = {}
            THEN /\ Returned(p, VerifyReturn("None", NoSession))
                 /\ UNCHANGED <<sessions, cache>>
            ELSE \E i \in found :
                 /\ sessions' = [sessions EXCEPT ![i].last_activity = now]
                 /\ IF CacheSetRaises(sessions[i].expires_at, now)
                    THEN /\ cache' = cache
                         /\ Returned(p, VerifyReturn("raised", NoSession))
                    ELSE /\ cache' = CacheSet(cache, token.session_id,
                                              sessions[i].expires_at, now)
                         /\ Returned(p, VerifyReturn("claims_from_database",
                                                      token.session_id))

(***************************************************************************)
(* The clock; Redis drops a key when its ttl has run out                   *)
(***************************************************************************)
Tick ==
    /\ now < MaxTime
    /\ now' = now + 1
    /\ cache' = [k \in {j \in DOMAIN cache : cache[j] > now + 1} |-> cache[k]]
    /\ UNCHANGED <<users, sessions, audit, redis_up, auth_roles, pc, loc, ret, streak>>

(***************************************************************************)
(* Initial state: two registered accounts, no session, an empty audit log  *)
(***************************************************************************)
UserRow(name, email, password, secret, active, verified, mfa, changed_at) ==
    [uuid |-> name, username |-> name, email |-> email,
     password_hash |-> hash_password(password),
     mfa_secret |-> secret, mfa_enabled |-> mfa,
     email_verified |-> verified,
     password_changed_at |-> changed_at, must_change_password |-> FALSE,
     is_active |-> active, is_locked |-> FALSE, locked_until |-> NoTime,
     failed_login_attempts |-> 0,
     email_verification_token |-> NoToken, roles |-> <<>>]

NoReturn == Return("none", "none", FALSE, <<>>, NoSession, FALSE, FALSE)

Init ==
    /\ now = 0
    /\ \E active \in BOOLEAN, verified \in BOOLEAN, mfa \in BOOLEAN :
         users = <<UserRow("alice", "alice@kgv", "pw1", "S1", active, verified, mfa, 0),
                   UserRow("bob", "bob@kgv", "pw2", "S2", TRUE, TRUE, FALSE, 0 - 8)>>
    /\ sessions = <<>>
    /\ audit = <<>>
    /\ cache = <<>>
    /\ redis_up = TRUE
    /\ auth_roles = {"user"}
    /\ pc = [p \in Procs |-> "idle"]
    /\ loc = [p \in Procs |-> <<>>]
    /\ ret = NoReturn
    /\ streak = <<0, 0>>

Next ==
    \/ \E id \in Identifiers, pw \in Passwords, tok \in MfaTokens(now) :
          Authenticate("p1", id, pw, tok)
    \/ \E tok \in PresentableTokens(sessions) : VerifySession("p1", tok)
    \/ Tick

Spec == Init /\ [][Next]_vars

(***************************************************************************)
(* Redis going away and coming back                                        *)
(***************************************************************************)
RedisFails ==
    /\ redis_up
    /\ redis_up' = FALSE
    /\ UNCHANGED <<now, users, sessions, audit, cache, auth_roles, pc, loc, ret, streak>>

RedisRecovers ==
    /\ ~redis_up
    /\ redis_up' = TRUE
    /\ UNCHANGED <<now, users, sessions, audit, cache, auth_roles, pc, loc, ret, streak>>


(***************************************************************************)
(* Concurrent request workers.  Each worker runs its call in a database    *)
(* session of its own (READ COMMITTED): a statement sees what was          *)
(* committed when it runs, the ORM keeps the rows it loaded, and a commit  *)
(* writes the columns the call changed.  One step is taken per statement   *)
(* or commit, and the clock may advance between steps.                     *)
(***************************************************************************)
\* A worker that flushed changes of the user row with its count query holds
\* the row's lock until it commits; another UPDATE of that row waits.
RowLockFree(p, uid) ==
    \A q \in Procs \ {p} :
        ~( /\ pc[q] \in {"oldest", "commit"}
           /\ loc[q].uid = uid
           /\ loc[q].user # loc[q].loaded )

Finished(p) == pc' = [pc EXCEPT ![p] = "idle"] /\ loc' = [loc EXCEPT ![p] = <<>>]

\* The user query; an unknown identifier is logged and refused at once.
AuthQueryUser(p, identifier, password, mfa_token) ==
    /\ Idle(p)
    /\ Len(audit) < MaxAudit
    /\ UNCHANGED <<now, users, sessions, cache, redis_up, auth_roles, streak>>
    /\ IF FindUser(users, identifier) = {}
       THEN /\ audit' = log_audit(audit, AuditEntry(NoUser, "USER_NOT_FOUND"))
            /\ Returned(p, AuthFailure("USER_NOT_FOUND", <<>>, now, FALSE))
            /\ UNCHANGED <<pc, loc>>
       ELSE \E uid \in FindUser(users, identifier) :
            /\ loc' = [loc EXCEPT ![p] = [uid |-> uid, password |-> password,
                                          mfa_token |-> mfa_token,
                                          loaded |-> users[uid]]]
            /\ pc' = [pc EXCEPT ![p] = "gates"]
            /\ UNCHANGED <<audit, ret>>

\* Lock check, password check and the gates after it, on the loaded row; a
\* refusal commits and returns.
AuthCheckGates(p) ==
    /\ pc[p] = "gates"
    /\ UNCHANGED <<now, sessions, cache, redis_up, auth_roles, streak>>
    /\ LET l == loc[p]
           g == Gate(l.loaded, l.password, l.mfa_token, now)
       IN IF g.outcome = "PASSED"
          THEN /\ loc' = [loc EXCEPT ![p] =
                            [uid |-> l.uid, loaded |-> l.loaded, user |-> g.user]]
               /\ pc' = [pc EXCEPT ![p] = "count"]
               /\ UNCHANGED <<users, audit, ret>>
          ELSE /\ (LogsAudit(g.outcome) /\ g.user # l.loaded)
                     => RowLockFree(p, l.uid)
               /\ users' = IF LogsAudit(g.outcome)
                           THEN [users EXCEPT
                                   ![l.uid] = WriteBack(@, l.loaded, g.user)]
                           ELSE users
               /\ audit' = IF LogsAudit(g.outcome)
                           THEN log_audit(audit, AuditEntry(l.uid, g.outcome))
                           ELSE audit
               /\ Returned(p, AuthFailure(g.outcome, l.loaded, now,
                                          LockCleared(l.loaded, g.outcome)))
               /\ Finished(p)

\* The count query (it flushes the pending changes of the user row).
AuthCountSessions(p) ==
    /\ pc[p] = "count"
    /\ loc[p].user # loc[p].loaded => RowLockFree(p, loc[p].uid)
    /\ pc' = [pc EXCEPT ![p] =
                IF LimitReached(CountActive(sessions, loc[p].uid, now))
                THEN "oldest" ELSE "commit"]
    /\ loc' = [loc EXCEPT ![p] = [uid |-> loc[p].uid, loaded |-> loc[p].loaded,
                                  user |-> loc[p].user, oldest |-> NoSession]]
    /\ UNCHANGED <<now, users, sessions, audit, cache, redis_up, auth_roles, ret, streak>>

\* The query for the oldest active session; its cache key is deleted at
\* once, its is_active = False stays pending until the commit.
AuthEvictOldest(p) ==
    /\ pc[p] = "oldest"
    /\ UNCHANGED <<now, users, sessions, audit, redis_up, auth_roles, streak>>
    /\ LET found == OldestActive(sessions, loc[p].uid)
       IN \E oldest \in (IF found = {} THEN {NoSession} ELSE found) :
          IF oldest # NoSession /\ ~redis_up
          THEN /\ Returned(p, AuthRaised(LockCleared(loc[p].loaded, "PASSED")))
               /\ Finished(p)
               /\ UNCHANGED cache
          ELSE /\ cache' = IF oldest = NoSession THEN cache
                           ELSE CacheDelete(cache, oldest)
               /\ loc' = [loc EXCEPT ![p].oldest = oldest]
               /\ pc' = [pc EXCEPT ![p] = "commit"]
               /\ UNCHANGED ret

\* Tokens, the new session row, the login columns of the user, commit.
AuthCommit(p) ==
    /\ pc[p] = "commit"
    /\ Len(sessions) < MaxSessions
    /\ RowLockFree(p, loc[p].uid)
    /\ LET l == loc[p]
           sid == Len(sessions) + 1
           u2 == [l.user EXCEPT !.failed_login_attempts = 0]
       IN /\ sessions' = Append(Deactivate(sessions, l.oldest),
                                NewSession(sid, l.uid, l.user, now))
          /\ users' = [users EXCEPT ![l.uid] = WriteBack(@, l.loaded, u2)]
          /\ loc' = [loc EXCEPT ![p] = [uid |-> l.uid, loaded |-> l.loaded,
                                        sid |-> sid]]
    /\ pc' = [pc EXCEPT ![p] = "cache"]
    /\ UNCHANGED <<now, audit, cache, redis_up, auth_roles, ret, streak>>

\* _cache_session, the audit row, the return value.
AuthFinish(p) ==
    /\ pc[p] = "cache"
    /\ UNCHANGED <<now, users, sessions, redis_up, auth_roles, streak>>
    /\ LET l == loc[p]
           row == sessions[l.sid]
           cleared == LockCleared(l.loaded, "PASSED")
       IN IF CacheSetRaises(row.expires_at, now)
          THEN /\ Returned(p, AuthRaised(cleared))
               /\ UNCHANGED <<cache, audit>>
          ELSE /\ cache' = CacheSet(cache, l.sid, row.expires_at, now)
               /\ audit' = log_audit(audit, AuditEntry(l.uid, "SUCCESS"))
               /\ Returned(p, AuthSuccess(l.sid,
                                          users[l.uid].must_change_password,
                                          cleared))
    /\ Finished(p)

\* verify_session: the token check and the cache lookup.
VerifyLookup(p, token) ==
    /\ Idle(p)
    /\ UNCHANGED <<now, users, sessions, audit, cache, redis_up, auth_roles, streak>>
    /\ IF ~JWT_verify_token(token, "access", now)
       THEN Returned(p, VerifyReturn("None", NoSession)) /\ UNCHANGED <<pc, loc>>
       ELSE IF ~redis_up
       THEN Returned(p, VerifyReturn("raised", NoSession)) /\ UNCHANGED <<pc, loc>>
       ELSE IF CacheHit(cache, token.session_id)
       THEN /\ Returned(p, VerifyReturn("claims", token.session_id))
            /\ UNCHANGED <<pc, loc>>
       ELSE /\ loc' = [loc EXCEPT ![p] = [session_id |-> token.session_id]]
            /\ pc' = [pc EXCEPT ![p] = "v_query"]
            /\ UNCHANGED ret

\* verify_session: the durable lookup; last_activity is committed.
VerifyQuery(p) ==
    /\ pc[p] = "v_query"
    /\ UNCHANGED <<now, users, audit, cache, redis_up, auth_roles, streak>>
    /\ LET found == FindSession(sessions, loc[p].session_id, now)
       IN IF found = {}
          THEN /\ Returned(p, VerifyReturn("None", NoSession))
               /\ Finished(p)
               /\ UNCHANGED sessions
          ELSE \E i \in found :
               /\ sessions' = [sessions EXCEPT ![i].last_activity = now]
               /\ loc' = [loc EXCEPT ![p] = [session_id |-> loc[p].session_id,
                                             row |-> i]]
               /\ pc' = [pc EXCEPT ![p] = "v_cache"]
               /\ UNCHANGED ret

\* verify_session: the session is cached again and the claims returned.
VerifyRecache(p) ==
    /\ pc[p] = "v_cache"
    /\ UNCHANGED <<now, users, sessions, audit, redis_up, auth_roles, streak>>
    /\ LET row == sessions[loc[p].row]
       IN IF CacheSetRaises(row.expires_at, now)
          THEN /\ Returned(p, VerifyReturn("raised", NoSession))
               /\ UNCHANGED cache
          ELSE /\ cache' = CacheSet(cache, row.session_id, row.expires_at, now)
               /\ Returned(p, VerifyReturn("claims_from_database",
                                            row.session_id))
    /\ Finished(p)

\* The requests of the concurrent workers: either password for an account
\* or an unknown identifier, with no code or the current one.
ConcIdentifiers == {"alice", "nobody"}
ConcTokens(t) == {NoToken, totp_at("S1", t)}

InitConc ==
    /\ Init
    /\ users[1].is_active
    /\ users[1].email_verified

\* The clock of the concurrent workers stops at MaxTimeConc.
TickConc == now < MaxTimeConc /\ Tick

NextConc ==
    \/ \E p \in Procs :
          \/ \E id \in ConcIdentifiers, pw \in Passwords, tok \in ConcTokens(now) :
                AuthQueryUser(p, id, pw, tok)
          \/ AuthCheckGates(p)
          \/ AuthCountSessions(p)
          \/ AuthEvictOldest(p)
          \/ AuthCommit(p)
          \/ AuthFinish(p)
          \/ \E tok \in PresentableTokens(sessions) : VerifyLookup(p, tok)
          \/ VerifyQuery(p)
          \/ VerifyRecache(p)
    \/ TickConc

SpecConc == InitConc /\ [][NextConc]_vars

\* Calls of one worker while Redis comes and goes, in the same environment.
NextFault ==
    \/ \E id \in ConcIdentifiers, pw \in Passwords, tok \in ConcTokens(now) :
          Authenticate("p1", id, pw, tok)
    \/ \E tok \in PresentableTokens(sessions) : VerifySession("p1", tok)
    \/ TickConc
    \/ RedisFails
    \/ RedisRecovers

SpecFault == InitConc /\ [][NextFault]_vars

(***************************************************************************)
(* The pure functions of PasswordManager and JWTManager, each applied once *)
(* to arguments drawn at the start                                         *)
(***************************************************************************)
Seqs(S, n) == UNION {[1..k -> S] : k \in 0..n}

SmallAlphabet == {"a", "A", "1", "!"}

StrengthPasswords ==
    Seqs(SmallAlphabet, MaxLen) \cup
    {<<"p", "a", "s", "s", "w", "o", "r", "d", "1", "2", "3">>,
     <<"p", "a", "s", "s", "w", "o", "r", "d">>,
     <<"P", "a", "s", "s", "w", "o", "r", "d">>,
     <<"P", "A", "S", "S", "W", "O", "R", "D", "1">>,
     <<"l", "e", "t", "m", "e", "i", "n">>,
     <<"1", "2", "3", "4", "5", "6">>,
     <<"a", "d", "m", "i", "n">>,
     <<"w", "e", "l", "c", "o", "m", "e">>,
     <<"T", "r", "0", "u", "b", "4", "d", "o", "r", "&", "3", "x", "y", "z">>,
     <<"j", "d", "o", "e", "J", "D", "O", "E", "1", "2", "3", "4", "!", "x">>,
     <<"X", "J", "d", "O", "e", "#", "2", "0", "2", "4", "a", "b", "c", "d">>,
     <<"A", "a", "1", "!", "A", "a", "1", "!", "A", "a", "1", "!">>,
     <<"a", "a", "a", "a">>,
     <<"c", "o", "r", "r", "e", "c", "t", "h", "o", "r", "s", "e", "b", "a", "t", "t", "e", "r", "y">>,
     <<"M", "a", "i", "l", ".", "u", "s", "e", "r", "9", "!", "x", "y", "z">>,
     <<"W", "E", "L", "C", "O", "M", "E">>,
     <<"A", "d", "m", "i", "n">>,
     <<"S", "3", "c", "u", "r", "e", "!", "G", "a", "r", "d", "e", "n", "#", "P", "l", "o", "t">>}

StrengthUsernames == {<<>>, <<"j", "d", "o", "e">>, <<"a", "d", "m", "i", "n">>, <<"J", "D", "o", "e">>}

StrengthEmails == {<<>>, <<"j", "d", "o", "e", "@", "k", "g", "v", ".", "d", "e">>, <<"@", "k", "g", "v", ".", "d", "e">>, <<"m", "a", "i", "l", ".", "u", "s", "e", "r">>}

StrengthCalls ==
    {[call |-> "validate_password_strength", password |-> pw, username |-> u,
      email |-> e] :
        pw \in StrengthPasswords, u \in StrengthUsernames, e \in StrengthEmails}

HistoryCalls ==
    {[call |-> "check_password_history", new_password |-> pw,
      password_history |-> h, count |-> c] :
        pw \in Passwords,
        h \in Seqs({hash_password(q) : q \in Passwords}, MaxHistory),
        c \in 0..MaxHistoryCount}

\* Tokens issued up to time t, and copies with a foreign signing key, a
\* foreign audience or a foreign issuer.
TokenSubject == [uuid |-> "alice"]

TokenVariants(t) ==
    LET issued == UNION {{generate_access_token(TokenSubject, 1, t0),
                          generate_refresh_token(TokenSubject, 1, t0)} : t0 \in 0..t}
    IN issued
       \cup {[tk EXCEPT !.key = "other_key"] : tk \in issued}
       \cup {[tk EXCEPT !.aud = "other-api"] : tk \in issued}
       \cup {[tk EXCEPT !.iss = "other-auth"] : tk \in issued}

TokenCalls(t) ==
    {[call |-> "verify_token", token |-> tk, token_type |-> ty] :
        tk \in TokenVariants(t), ty \in {"access", "refresh"}}

\* Users holding up to MaxRoles roles (a role may be held twice: user_roles
\* has no key), out of roles with one permission, with two, with none, and
\* with two permissions that give the same string.
RolePermissions ==
    {[name |-> "user",
      permissions |-> <<[resource |-> <<"p">>, action |-> <<"r">>]>>],
     [name |-> "admin",
      permissions |-> <<[resource |-> <<"p">>, action |-> <<"w">>],
                        [resource |-> <<"p">>, action |-> <<"r">>]>>],
     [name |-> "guest", permissions |-> <<>>],
     [name |-> "auditor",
      permissions |-> <<[resource |-> <<"p", ":", "r">>, action |-> <<"r">>],
                        [resource |-> <<"p">>, action |-> <<"r", ":", "r">>]>>]}

RoleCalls ==
    {[call |-> "generate_access_token", roles |-> rs] :
        rs \in Seqs(RolePermissions, MaxRoles)}

PureReturn(op, ok, value) ==
    Return(op, IF ok THEN "ok" ELSE "not ok", ok, value, NoSession, FALSE, FALSE)

PureRaised(op) == Return(op, "raised", FALSE, <<>>, NoSession, FALSE, FALSE)

\* Codes of either secret generated up to MaxSkew steps from the current one.
MfaCalls(t) ==
    {[call |-> "mfa_verify_token", secret |-> s, token |-> totp_at(s2, t + d)] :
        s \in {"S1", "S2"}, s2 \in {"S1", "S2"}, d \in (0 - MaxSkew)..MaxSkew}

\* Hashes made by hash_password, legacy hashes, and strings that are no hash.
PasswordCalls ==
    {[call |-> "verify_password", password |-> pw, hash |-> <<f, q>>] :
        pw \in Passwords \cup {OversizedPassword, UnencodablePassword},
        q \in Passwords \cup {OversizedPassword},
        f \in {"argon2id", "bcrypt", "pbkdf2_sha256", "plain"}}

MfaVerifyToken(p) ==
    /\ Idle(p)
    /\ ret = NoReturn
    /\ loc[p].call = "mfa_verify_token"
    /\ ret' = PureReturn("mfa_verify_token",
                         MFA_verify_token(loc[p].secret, loc[p].token, now), <<>>)
    /\ UNCHANGED <<now, users, sessions, audit, cache, redis_up, auth_roles, pc, loc, streak>>

VerifyPassword(p) ==
    /\ Idle(p)
    /\ ret = NoReturn
    /\ loc[p].call = "verify_password"
    /\ ret' = IF verify_password_raises(loc[p].password, loc[p].hash)
              THEN PureRaised("verify_password")
              ELSE PureReturn("verify_password",
                              verify_password(loc[p].password, loc[p].hash), <<>>)
    /\ UNCHANGED <<now, users, sessions, audit, cache, redis_up, auth_roles, pc, loc, streak>>

ValidatePasswordStrength(p) ==
    /\ Idle(p)
    /\ ret = NoReturn
    /\ loc[p].call = "validate_password_strength"
    /\ LET v == validate_password_strength(loc[p].password, loc[p].username,
                                           loc[p].email)
       IN ret' = PureReturn("validate_password_strength", v.ok, v.errors)
    /\ UNCHANGED <<now, users, sessions, audit, cache, redis_up, auth_roles, pc, loc, streak>>

CheckPasswordHistory(p) ==
    /\ Idle(p)
    /\ ret = NoReturn
    /\ loc[p].call = "check_password_history"
    /\ ret' = PureReturn("check_password_history",
                         check_password_history(loc[p].new_password,
                                                loc[p].password_history,
                                                loc[p].count),
                         <<>>)
    /\ UNCHANGED <<now, users, sessions, audit, cache, redis_up, auth_roles, pc, loc, streak>>

\* ok: the claims were returned; not ok: None was returned.
VerifyToken(p) ==
    /\ Idle(p)
    /\ ret = NoReturn
    /\ loc[p].call = "verify_token"
    /\ ret' = PureReturn("verify_token",
                         JWT_verify_token(loc[p].token, loc[p].token_type, now),
                         <<>>)
    /\ UNCHANGED <<now, users, sessions, audit, cache, redis_up, auth_roles, pc, loc, streak>>

\* generate_access_token: the permissions claim of the token.
GenerateAccessToken(p) ==
    /\ Idle(p)
    /\ ret = NoReturn
    /\ loc[p].call = "generate_access_token"
    /\ \E permissions \in permissions_claim(loc[p].roles) :
          ret' = PureReturn("generate_access_token", TRUE, permissions)
    /\ UNCHANGED <<now, users, sessions, audit, cache, redis_up, auth_roles, pc, loc, streak>>

InitPure ==
    /\ now \in 0..MaxTime
    /\ users = <<>>
    /\ sessions = <<>>
    /\ audit = <<>>
    /\ cache = <<>>
    /\ redis_up = TRUE
    /\ auth_roles = {"user"}
    /\ pc = [p \in Procs |-> "idle"]
    /\ \E c \in (IF now = 0 THEN StrengthCalls \cup HistoryCalls \cup PasswordCalls
                                 \cup RoleCalls
                            ELSE {})
                   \cup TokenCalls(now) \cup MfaCalls(now) :
          loc = [p \in Procs |-> IF p = "p1" THEN c ELSE <<>>]
    /\ ret = NoReturn
    /\ streak = <<>>

NextPure ==
    \/ ValidatePasswordStrength("p1")
    \/ CheckPasswordHistory("p1")
    \/ VerifyToken("p1")
    \/ MfaVerifyToken("p1")
    \/ VerifyPassword("p1")
    \/ GenerateAccessToken("p1")

SpecPure == InitPure /\ [][NextPure]_vars

(***************************************************************************)
(* AuthenticationService.register_user, on an empty auth_users table       *)
(***************************************************************************)
ExistingUser_by_username(us, username, email) ==
    {i \in DOMAIN us : us[i].username = username}

\* The query for a row with that username or that email.
ExistingUser(us, username, email) ==
    {i \in DOMAIN us : us[i].username = username \/ us[i].email = email}

RegisterReturn(outcome, msg) ==
    Return("register_user", outcome, outcome = "SUCCESS", msg, NoSession,
           FALSE, FALSE)

RegisterAudit(user_id, outcome) ==
    [user_id |-> user_id,
     event_type |-> IF outcome = "SUCCESS" THEN "REGISTRATION"
                    ELSE "REGISTRATION_FAILED",
     event_status |-> outcome]

\* secrets.token_urlsafe(32): any of the values it may draw.
UrlsafeTokens == {<<"urlsafe", n>> : n \in 1..2}

NewUser_verified(username, email, password, t, token, roles) ==
    [UserRow(username, email, password, "None", TRUE, TRUE, FALSE, t)
        EXCEPT !.email_verification_token =
                  IF require_email_verification THEN token ELSE NoToken,
               !.roles = IF "user" \in roles THEN <<"user">> ELSE <<>>]

\* The row of a new account: the column defaults, email_verified set only
\* when verification is not required, a verification token only when it is,
\* and the role 'user' when auth_roles has it.
NewUser(username, email, password, t, token, roles) ==
    [UserRow(username, email, password, "None", TRUE,
             ~require_email_verification, FALSE, t)
        EXCEPT !.email_verification_token =
                  IF require_email_verification THEN token ELSE NoToken,
               !.roles = IF "user" \in roles THEN <<"user">> ELSE <<>>]

RegisterUser(p, username, email, password) ==
    /\ Idle(p)
    /\ Len(audit) < MaxAudit
    /\ Len(users) < MaxUsers
    /\ UNCHANGED <<now, sessions, cache, redis_up, auth_roles, pc, loc>>
    /\ LET v == validate_password_strength(password, username, email)
       IN IF ExistingUser(users, username, email) # {}
          THEN /\ audit' = log_audit(audit, RegisterAudit(NoUser, "DUPLICATE"))
               /\ ret' = RegisterReturn("DUPLICATE",
                                        <<"Username or email already exists">>)
               /\ UNCHANGED <<users, streak>>
          ELSE IF ~v.ok
          THEN /\ ret' = RegisterReturn("WEAK_PASSWORD", v.errors)
               /\ UNCHANGED <<users, audit, streak>>
          ELSE /\ \E token \in UrlsafeTokens :
                    users' = Append(users, NewUser(username, email, password,
                                                   now, token, auth_roles))
               /\ streak' = Append(streak, 0)
               /\ audit' = log_audit(audit, RegisterAudit(Len(users) + 1, "SUCCESS"))
               /\ ret' = RegisterReturn("SUCCESS", <<"Registration successful">>)

RegUsernames == {<<"j", "d", "o", "e">>, <<"a", "d", "m", "i", "n">>}
RegEmails == {<<"j", "d", "o", "e", "@", "k", "g", "v", ".", "d", "e">>, <<"a", "d", "m", "i", "n", "@", "k", "g", "v", ".", "d", "e">>}
RegPasswords ==
    {<<"S", "3", "c", "u", "r", "e", "!", "G", "a", "r", "d", "e", "n", "#", "P", "l", "o", "t">>,
     <<"T", "r", "0", "u", "b", "4", "d", "o", "r", "&", "3", "x", "y", "z">>,
     <<"p", "a", "s", "s", "w", "o", "r", "d", "1", "2", "3">>,
     <<"A", "d", "m", "i", "n">>,
     <<"a", "a", "a", "a">>}

\* The auth_roles table: empty, without the role 'user', with it.
RoleTables == {{}, {"admin"}, {"admin", "user"}}

InitReg ==
    /\ now = 0
    /\ users = <<>>
    /\ sessions = <<>>
    /\ audit = <<>>
    /\ cache = <<>>
    /\ redis_up = TRUE
    /\ auth_roles \in RoleTables
    /\ pc = [p \in Procs |-> "idle"]
    /\ loc = [p \in Procs |-> <<>>]
    /\ ret = NoReturn
    /\ streak = <<>>

NextReg ==
    \/ \E u \in RegUsernames, e \in RegEmails, pw \in RegPasswords :
          RegisterUser("p1", u, e, pw)
    \/ TickConc

SpecReg == InitReg /\ [][NextReg]_vars

(***************************************************************************)
(* An account locked by hand: is_locked set, locked_until left NULL        *)
(***************************************************************************)
InitAdminLock ==
    /\ now = 0
    /\ \E active \in BOOLEAN, verified \in BOOLEAN, mfa \in BOOLEAN :
         users = <<[UserRow("alice", "alice@kgv", "pw1", "S1", active, verified, mfa, 0)
                       EXCEPT !.is_locked = TRUE],
                   UserRow("bob", "bob@kgv", "pw2", "S2", TRUE, TRUE, FALSE, 0 - 8)>>
    /\ sessions = <<>>
    /\ audit = <<>>
    /\ cache = <<>>
    /\ redis_up = TRUE
    /\ auth_roles = {"user"}
    /\ pc = [p \in Procs |-> "idle"]
    /\ loc = [p \in Procs |-> <<>>]
    /\ ret = NoReturn
    /\ streak = <<0, 0>>

SpecAdminLock == InitAdminLock /\ [][Next]_vars

(***************************************************************************)
(* verify_session statement by statement, with a cache that may lose keys  *)
(* (a restart or an eviction of Redis) and a clock that advances between   *)
(* the statements of a call                                                *)
(***************************************************************************)
RedisDropsKey(session_id) ==
    /\ CacheHit(cache, session_id)
    /\ cache' = CacheDelete(cache, session_id)
    /\ UNCHANGED <<now, users, sessions, audit, redis_up, auth_roles, pc, loc, ret, streak>>

NextReadThrough ==
    \/ \E id \in ConcIdentifiers, pw \in Passwords, tok \in ConcTokens(now) :
          Authenticate("p1", id, pw, tok)
    \/ \E tok \in PresentableTokens(sessions) : VerifyLookup("p1", tok)
    \/ VerifyQuery("p1")
    \/ VerifyRecache("p1")
    \/ \E k \in DOMAIN cache : RedisDropsKey(k)
    \/ Tick

SpecReadThrough == InitConc /\ [][NextReadThrough]_vars

\* The calls one after another, each uninterrupted, with a cache that may
\* lose keys.
NextCacheLoss ==
    \/ \E id \in ConcIdentifiers, pw \in Passwords, tok \in ConcTokens(now) :
          Authenticate("p1", id, pw, tok)
    \/ \E tok \in PresentableTokens(sessions) : VerifySession("p1", tok)
    \/ \E k \in DOMAIN cache : RedisDropsKey(k)
    \/ Tick

SpecCacheLoss == InitConc /\ [][NextCacheLoss]_vars

(***************************************************************************)
(* Accounts whose passwords have different ages                            *)
(***************************************************************************)
\* password_changed_at of the second account: two days ago, a day and a
\* half, a day and a second, a day.
PasswordChangeTimes ==
    {0 - 2 * SecondsPerDay, 0 - SecondsPerDay - 2, 0 - SecondsPerDay - 1,
     0 - SecondsPerDay}

InitExpiry ==
    /\ now = 0
    /\ \E changed_at \in PasswordChangeTimes :
         users = <<UserRow("alice", "alice@kgv", "pw1", "S1", TRUE, TRUE, FALSE, 0),
                   UserRow("bob", "bob@kgv", "pw2", "S2", TRUE, TRUE, FALSE, changed_at)>>
    /\ sessions = <<>>
    /\ audit = <<>>
    /\ cache = <<>>
    /\ redis_up = TRUE
    /\ auth_roles = {"user"}
    /\ pc = [p \in Procs |-> "idle"]
    /\ loc = [p \in Procs |-> <<>>]
    /\ ret = NoReturn
    /\ streak = <<0, 0>>

\* Neither account has MFA enabled: the calls carry no code.
NextExpiry ==
    \/ \E id \in {"alice", "bob"}, pw \in Passwords :
          Authenticate("p1", id, pw, NoToken)
    \/ \E tok \in PresentableTokens(sessions) : VerifySession("p1", tok)
    \/ Tick

SpecExpiry == InitExpiry /\ [][NextExpiry]_vars

\* Registrations and logins of the registered accounts, by username or by
\* email, with the passwords offered at registration.
NextRegLogin ==
    \/ \E u \in RegUsernames, e \in RegEmails, pw \in RegPasswords :
          RegisterUser("p1", u, e, pw)
    \/ \E id \in RegUsernames \cup RegEmails, pw \in RegPasswords :
          Authenticate("p1", id, pw, NoToken)
    \/ TickConc

SpecRegLogin == InitReg /\ [][NextRegLogin]_vars

(***************************************************************************)
(* register_user, authenticate and verify_session in any order, on a table *)
(* that holds one account whose email has been verified                    *)
(***************************************************************************)
StrongPassword ==
    <<"S", "3", "c", "u", "r", "e", "!", "G", "a", "r", "d", "e", "n", "#", "P", "l", "o", "t">>
OtherStrongPassword ==
    <<"T", "r", "0", "u", "b", "4", "d", "o", "r", "&", "3", "x", "y", "z">>
WeakPassword == <<"a", "a", "a", "a">>

VerifiedUser ==
    [UserRow(<<"j", "d", "o", "e">>,
             <<"j", "d", "o", "e", "@", "k", "g", "v", ".", "d", "e">>,
             StrongPassword, "None", TRUE, TRUE, FALSE, 0)
        EXCEPT !.roles = <<"user">>]

InitAll ==
    /\ now = 0
    /\ users = <<VerifiedUser>>
    /\ sessions = <<>>
    /\ audit = <<>>
    /\ cache = <<>>
    /\ redis_up = TRUE
    /\ auth_roles = {"user"}
    /\ pc = [p \in Procs |-> "idle"]
    /\ loc = [p \in Procs |-> <<>>]
    /\ ret = NoReturn
    /\ streak = <<0>>

NextAll ==
    \/ \E u \in RegUsernames, e \in RegEmails,
          pw \in {StrongPassword, WeakPassword} :
          RegisterUser("p1", u, e, pw)
    \/ \E id \in RegUsernames, pw \in {StrongPassword, OtherStrongPassword} :
          Authenticate("p1", id, pw, NoToken)
    \/ \E tok \in PresentableTokens(sessions) : VerifySession("p1", tok)
    \/ Tick

SpecAll == InitAll /\ [][NextAll]_vars

(***************************************************************************)
(* authenticate statement by statement with a durable store whose          *)
(* statements may raise: the except branch rolls back what the call has    *)
(* not committed and returns.  The calls are made within one second.       *)
(***************************************************************************)
AuthRaisedReturn(p, outcome) ==
    /\ Returned(p, AuthRaised(LockCleared(loc[p].loaded, outcome)))
    /\ Finished(p)

\* The user query raises.
AuthQueryRaises(p) ==
    /\ Idle(p)
    /\ Returned(p, AuthRaised(FALSE))
    /\ UNCHANGED <<now, users, sessions, audit, cache, redis_up, auth_roles, pc, loc, streak>>

\* Branches of the gates that commit before they call _log_audit.
CommitsBeforeAudit(outcome) ==
    outcome \in {"MAX_ATTEMPTS", "INVALID_PASSWORD", "INVALID_MFA"}

AuthStoreRaises_keeps_pending(p) ==
    /\ UNCHANGED <<now, users, audit, cache, redis_up, auth_roles, streak>>
    /\ \/ /\ pc[p] = "gates"
          /\ LET g == Gate(loc[p].loaded, loc[p].password, loc[p].mfa_token, now)
             IN /\ g.outcome \notin {"PASSED", "MFA_REQUIRED"}
                /\ AuthRaisedReturn(p, g.outcome)
          /\ UNCHANGED sessions
       \/ /\ pc[p] \in {"count", "oldest"}
          /\ AuthRaisedReturn(p, "PASSED")
          /\ UNCHANGED sessions
       \/ /\ pc[p] = "commit"
          /\ AuthRaisedReturn(p, "PASSED")
          /\ sessions' = Deactivate(sessions, loc[p].oldest)

\* The next statement of the call is a commit or a query, and it raises:
\* the first commit of a refusal, the count query, the query for the oldest
\* session, the commit of the new session.
AuthStoreRaises(p) ==
    /\ UNCHANGED <<now, users, sessions, audit, cache, redis_up, auth_roles, streak>>
    /\ \/ /\ pc[p] = "gates"
          /\ LET g == Gate(loc[p].loaded, loc[p].password, loc[p].mfa_token, now)
             IN /\ g.outcome \notin {"PASSED", "MFA_REQUIRED"}
                /\ AuthRaisedReturn(p, g.outcome)
       \/ /\ pc[p] \in {"count", "oldest", "commit"}
          /\ AuthRaisedReturn(p, "PASSED")

\* _log_audit raises after a commit of the call went through: the commit of
\* a refusal, or the commit of the new session (the session is cached by
\* then).
AuthAuditRaises(p) ==
    /\ UNCHANGED <<now, sessions, audit, redis_up, auth_roles, streak>>
    /\ \/ /\ pc[p] = "gates"
          /\ LET l == loc[p]
                 g == Gate(l.loaded, l.password, l.mfa_token, now)
             IN /\ CommitsBeforeAudit(g.outcome)
                /\ RowLockFree(p, l.uid)
                /\ users' = [users EXCEPT ![l.uid] = WriteBack(@, l.loaded, g.user)]
                /\ AuthRaisedReturn(p, g.outcome)
                /\ UNCHANGED cache
       \/ /\ pc[p] = "cache"
          /\ LET row == sessions[loc[p].sid]
             IN /\ ~CacheSetRaises(row.expires_at, now)
                /\ cache' = CacheSet(cache, loc[p].sid, row.expires_at, now)
                /\ AuthRaisedReturn(p, "PASSED")
                /\ UNCHANGED users

NextStoreFault ==
    \/ \E id \in ConcIdentifiers, pw \in Passwords, tok \in ConcTokens(now) :
          AuthQueryUser("p1", id, pw, tok)
    \/ AuthCheckGates("p1")
    \/ AuthCountSessions("p1")
    \/ AuthEvictOldest("p1")
    \/ AuthCommit("p1")
    \/ AuthFinish("p1")
    \/ AuthQueryRaises("p1")
    \/ AuthStoreRaises("p1")
    \/ AuthAuditRaises("p1")
    \/ \E tok \in PresentableTokens(sessions) : VerifySession("p1", tok)

\* The first account is active and verified; its lock, if it has one, was
\* set lockout_duration ago and has just run out.
InitStoreFault ==
    /\ now = 0
    /\ \E mfa \in BOOLEAN, locked \in BOOLEAN :
         users = <<IF locked
                   THEN [UserRow("alice", "alice@kgv", "pw1", "S1", TRUE, TRUE, mfa, 0)
                           EXCEPT !.is_locked = TRUE, !.locked_until = 0,
                                  !.failed_login_attempts = max_login_attempts]
                   ELSE UserRow("alice", "alice@kgv", "pw1", "S1", TRUE, TRUE, mfa, 0),
                   UserRow("bob", "bob@kgv", "pw2", "S2", TRUE, TRUE, FALSE, 0 - 8)>>
    /\ sessions = <<>>
    /\ audit = <<>>
    /\ cache = <<>>
    /\ redis_up = TRUE
    /\ auth_roles = {"user"}
    /\ pc = [p \in Procs |-> "idle"]
    /\ loc = [p \in Procs |-> <<>>]
    /\ ret = NoReturn
    /\ streak = <<0, 0>>

SpecStoreFault == InitStoreFault /\ [][NextStoreFault]_vars

(***************************************************************************)
(* Logins of two accounts, one of which may have been deactivated by an    *)
(* administrator (is_active is a column the service only reads)            *)
(***************************************************************************)
InitInactive ==
    /\ now = 0
    /\ \E active \in BOOLEAN :
         users = <<UserRow("alice", "alice@kgv", "pw1", "S1", active, TRUE, FALSE, 0),
                   UserRow("bob", "bob@kgv", "pw2", "S2", TRUE, TRUE, FALSE, 0)>>
    /\ sessions = <<>>
    /\ audit = <<>>
    /\ cache = <<>>
    /\ redis_up = TRUE
    /\ auth_roles = {"user"}
    /\ pc = [p \in Procs |-> "idle"]
    /\ loc = [p \in Procs |-> <<>>]
    /\ ret = NoReturn
    /\ streak = <<0, 0>>

SpecInactive == InitInactive /\ [][NextExpiry]_vars

(***************************************************************************)
(* Logins statement by statement whose store statements may raise, the     *)
(* clock, and verify_session: a login that has deleted the cache key of    *)
(* the oldest session may fail before its commit                           *)
(***************************************************************************)
NextEvictRollback ==
    \/ \E id \in {"alice", "bob"}, pw \in Passwords :
          AuthQueryUser("p1", id, pw, NoToken)
    \/ AuthCheckGates("p1")
    \/ AuthCountSessions("p1")
    \/ AuthEvictOldest("p1")
    \/ AuthCommit("p1")
    \/ AuthFinish("p1")
    \/ AuthStoreRaises("p1")
    \/ \E tok \in PresentableTokens(sessions) : VerifySession("p1", tok)
    \/ TickConc

SpecEvictRollback == InitInactive /\ [][NextEvictRollback]_vars

(***************************************************************************)
(* Concurrent register_user calls, one step for the existence query with   *)
(* the password check and one for the INSERT with its commit; the columns  *)
(* username and email of auth_users are declared unique                    *)
(***************************************************************************)
\* The existence query, the password rules, the row to insert.  (A call
\* starts while the rows and audit entries of the calls that have not yet
\* committed still fit the bounds.)
RegCheckExisting(p, username, email, password) ==
    /\ Idle(p)
    /\ LET pending == Cardinality({q \in Procs : pc[q] = "reg_commit"})
       IN /\ Len(audit) + pending < MaxAudit
          /\ Len(users) + pending < MaxUsers
    /\ UNCHANGED <<now, users, sessions, cache, redis_up, auth_roles, streak>>
    /\ LET v == validate_password_strength(password, username, email)
       IN IF ExistingUser(users, username, email) # {}
          THEN /\ audit' = log_audit(audit, RegisterAudit(NoUser, "DUPLICATE"))
               /\ ret' = RegisterReturn("DUPLICATE",
                                        <<"Username or email already exists">>)
               /\ UNCHANGED <<pc, loc>>
          ELSE IF ~v.ok
          THEN /\ ret' = RegisterReturn("WEAK_PASSWORD", v.errors)
               /\ UNCHANGED <<audit, pc, loc>>
          ELSE /\ \E token \in UrlsafeTokens :
                    loc' = [loc EXCEPT ![p] =
                              [user |-> NewUser(username, email, password, now,
                                                token, auth_roles)]]
               /\ pc' = [pc EXCEPT ![p] = "reg_commit"]
               /\ UNCHANGED <<audit, ret>>

UniqueViolation_username_only(us, row) ==
    \E i \in DOMAIN us : us[i].username = row.username

\* The INSERT breaks a unique constraint of auth_users (username, email).
UniqueViolation(us, row) ==
    \E i \in DOMAIN us : us[i].username = row.username \/ us[i].email = row.email

\* db.add(user), db.commit(); an IntegrityError reaches the except branch,
\* which rolls back and returns the failure.
RegCommit(p) ==
    /\ pc[p] = "reg_commit"
    /\ UNCHANGED <<now, sessions, cache, redis_up, auth_roles>>
    /\ Finished(p)
    /\ IF UniqueViolation(users, loc[p].user)
       THEN /\ ret' = RegisterReturn("EXCEPTION", <<"Registration failed">>)
            /\ UNCHANGED <<users, audit, streak>>
       ELSE /\ users' = Append(users, loc[p].user)
            /\ streak' = Append(streak, 0)
            /\ audit' = log_audit(audit, RegisterAudit(Len(users) + 1, "SUCCESS"))
            /\ ret' = RegisterReturn("SUCCESS", <<"Registration successful">>)

NextRegConc ==
    \E p \in Procs :
        \/ \E u \in RegUsernames, e \in RegEmails,
              pw \in {StrongPassword, WeakPassword} :
              RegCheckExisting(p, u, e, pw)
        \/ RegCommit(p)

SpecRegConc == InitReg /\ [][NextRegConc]_vars

(***************************************************************************)
(* Properties                                                              *)
(***************************************************************************)
\* An authenticate call of worker p1 that resolves to the account uid.
AuthenticateAs(uid, password, mfa_token) ==
    Authenticate("p1", users[uid].username, password, mfa_token)

\* The (success, message, data) triple a caller sees.
ReturnValue(r) == <<r.ok, r.msg, r.session_id, r.must_change_password>>

LastAudit == audit[Len(audit)]

\* C1: counted from an unlocked account with counter 0, the account is not
\* locked before the max_login_attempts-th consecutive wrong-password call,
\* that call locks it with locked_until = time of the call + lockout_duration,
\* and every call made while locked_until is in the future fails, whatever
\* password it carries.
C1_LockedAfterMaxAttempts ==
    [][\A uid \in DOMAIN users :
          LET early == /\ streak'[uid] > 0
                       /\ streak'[uid] < max_login_attempts
                       /\ users'[uid].is_locked
              unlocked == /\ streak'[uid] = max_login_attempts
                          /\ ~( /\ users'[uid].is_locked
                                /\ users'[uid].locked_until = now + lockout_duration )
              admitted == LockedOut(users[uid], now) /\ ret'.ok
          IN (early \/ unlocked \/ admitted)
             => \A pw \in Passwords, tok \in MfaTokens(now) :
                   ~AuthenticateAs(uid, pw, tok)]_vars

\* The lock engaged by the last of max_login_attempts wrong passwords in a
\* row, and a call with the right password was then refused.
C1_Witness ==
    \E uid \in DOMAIN users :
        /\ Len(audit) >= 2
        /\ audit[Len(audit) - 1] = AuditEntry(uid, "MAX_ATTEMPTS")
        /\ LastAudit = AuditEntry(uid, "ACCOUNT_LOCKED")
        /\ ret.outcome = "ACCOUNT_LOCKED"
        /\ streak[uid] = 0
        /\ LockedOut(users[uid], now)

\* C2: on a locked account whose locked_until has elapsed, a call with the
\* right password, on an active and verified account, with a valid code if
\* MFA is enabled, succeeds and leaves is_locked false, locked_until
\* cleared and failed_login_attempts at 0.
C2_LoginAfterLockExpiry ==
    [][\A uid \in DOMAIN users, pw \in Passwords, tok \in MfaTokens(now) :
          ( /\ users[uid].is_locked
            /\ users[uid].locked_until # NoTime
            /\ users[uid].locked_until <= now
            /\ verify_password(pw, users[uid].password_hash)
            /\ users[uid].is_active
            /\ require_email_verification => users[uid].email_verified
            /\ users[uid].mfa_enabled =>
                  tok # NoToken /\ MFA_verify_token(users[uid].mfa_secret, tok, now)
            /\ AuthenticateAs(uid, pw, tok) )
          => /\ ret'.ok
             /\ ~users'[uid].is_locked
             /\ users'[uid].locked_until = NoTime
             /\ users'[uid].failed_login_attempts = 0]_vars

C2_Witness ==
    \E uid \in DOMAIN users :
        /\ ret.outcome = "SUCCESS"
        /\ ret.lock_cleared
        /\ LastAudit = AuditEntry(uid, "SUCCESS")
        /\ ~users[uid].is_locked
        /\ users[uid].failed_login_attempts = 0

\* C3: a successful call that finds concurrent_sessions_limit active,
\* unexpired sessions of the user deactivates exactly one session, the one
\* created first among them, and leaves exactly concurrent_sessions_limit
\* active, unexpired sessions.
C3_EvictsOldestKeepsLimit ==
    [][\A uid \in DOMAIN users, pw \in Passwords, tok \in MfaTokens(now) :
          ( /\ AuthenticateAs(uid, pw, tok)
            /\ ret'.ok
            /\ CountActive(sessions, uid, now) >= concurrent_sessions_limit )
          => LET live == {i \in DOMAIN sessions :
                            /\ sessions[i].user_id = uid
                            /\ sessions[i].is_active
                            /\ sessions[i].expires_at > now}
                 gone == {i \in DOMAIN sessions :
                            sessions[i].is_active /\ ~sessions'[i].is_active}
             IN /\ Cardinality(gone) = 1
                /\ \A i \in gone :
                      /\ i \in live
                      /\ \A j \in live :
                            sessions[i].created_at <= sessions[j].created_at
                /\ CountActive(sessions', uid, now) = concurrent_sessions_limit]_vars

\* C4: however concurrent logins of one user interleave, the user never
\* holds more than concurrent_sessions_limit active, unexpired sessions.
C4_NeverMoreThanLimit ==
    \A uid \in DOMAIN users :
        CountActive(sessions, uid, now) <= concurrent_sessions_limit

\* The audit rows of one account.
AuditOf(uid) == {k \in DOMAIN audit : audit[k].user_id = uid}

\* C5: no increment of failed_login_attempts is lost: the
\* max_login_attempts-th failed password attempt on an account (none of
\* them refused by a lock, no login in between) engages the lock, so no
\* account has max_login_attempts failures on record that all ended as a
\* plain invalid password.
C5_NoLostFailure ==
    \A uid \in DOMAIN users :
        (\A k \in AuditOf(uid) : audit[k].event_status = "INVALID_PASSWORD")
        => Cardinality(AuditOf(uid)) < max_login_attempts

\* C6: no refresh token verifies as an access token, no access token
\* verifies as a refresh token, and verify_session accepts no refresh token.
C6_TokenKindsNeverConfused ==
    /\ [](\A i \in DOMAIN sessions :
            /\ ~JWT_verify_token(sessions[i].refresh_token, "access", now)
            /\ ~JWT_verify_token(sessions[i].access_token, "refresh", now))
    /\ [][\A tok \in PresentableTokens(sessions) :
            (tok.token_type = "refresh" /\ VerifySession("p1", tok))
              => ~ret'.ok]_vars

\* C7: verify_session hands back claims from the cache only for a session
\* whose durable row is active at that moment (on a cache miss it reads
\* is_active itself).
C7_CacheHitOnlyForActiveSession ==
    [][\A p \in Procs, tok \in PresentableTokens(sessions) :
          ( /\ VerifyLookup(p, tok)
            /\ pc'[p] = "idle"
            /\ ret'.outcome = "claims" )
          => \E i \in DOMAIN sessions :
                /\ sessions[i].session_id = tok.session_id
                /\ sessions[i].is_active]_vars

\* C8: every authenticate call that returns appends exactly one audit row,
\* whose user_id is the account's id when the identifier resolves and null
\* when it does not.
C8_OneAuditEntryPerCall ==
    [][\A id \in Identifiers, pw \in Passwords, tok \in MfaTokens(now) :
          Authenticate("p1", id, pw, tok)
          => /\ Len(audit') = Len(audit) + 1
             /\ \A k \in 1..Len(audit) : audit'[k] = audit[k]
             /\ IF FindUser(users, id) = {}
                THEN audit'[Len(audit')].user_id = NoUser
                ELSE audit'[Len(audit')].user_id \in FindUser(users, id)]_vars

\* C9: a call with a wrong password for an existing account returns exactly
\* what a call for an unknown identifier returns.
C9_UnknownAndWrongPasswordAlike ==
    [][\A id \in Identifiers, pw \in Passwords, tok \in MfaTokens(now) :
          ( /\ Authenticate("p1", id, pw, tok)
            /\ \A uid \in FindUser(users, id) :
                  ~verify_password(pw, users[uid].password_hash) )
          => ReturnValue(ret')
               = ReturnValue(AuthFailure("USER_NOT_FOUND", <<>>, now, FALSE))]_vars

\* C10: with or without a working cache, a call that passes every gate
\* returns success and stores its session row.
C10_CacheFailureDoesNotFailLogin ==
    [][\A uid \in DOMAIN users, pw \in Passwords, tok \in MfaTokens(now) :
          ( /\ AuthenticateAs(uid, pw, tok)
            /\ Gate(users[uid], pw, tok, now).outcome = "PASSED" )
          => /\ ret'.ok
             /\ Len(sessions') = Len(sessions) + 1
             /\ sessions'[Len(sessions')].session_id = ret'.session_id]_vars

\* C11: a call refused for an invalid MFA code counts like a wrong
\* password: failed_login_attempts goes up by one and, when it reaches
\* max_login_attempts, the account is locked until now + lockout_duration.
C11_InvalidMfaCountsLikeWrongPassword ==
    [][\A uid \in DOMAIN users :
          LET n == AfterLockCheck(users[uid]).failed_login_attempts + 1
              counted == users'[uid].failed_login_attempts = n
              locked == /\ users'[uid].is_locked
                        /\ users'[uid].locked_until = now + lockout_duration
          IN ( /\ ret'.outcome = "INVALID_MFA"
               /\ ~(counted /\ (n >= max_login_attempts => locked)) )
             => \A pw \in Passwords, tok \in MfaTokens(now) :
                   ~AuthenticateAs(uid, pw, tok)]_vars

\* The gates of authenticate for the account uid, stated on the stored row.
GatesHold(uid, pw, tok) ==
    /\ ~( /\ users[uid].is_locked
          /\ users[uid].locked_until # NoTime
          /\ users[uid].locked_until > now )
    /\ users[uid].password_hash = hash_password(pw)
    /\ users[uid].is_active
    /\ require_email_verification => users[uid].email_verified
    /\ users[uid].mfa_enabled =>
          /\ tok # NoToken
          /\ \E d \in {-1, 0, 1} : tok = totp_at(users[uid].mfa_secret, now + d)

\* C12: a call returns success only if the identifier resolves to an
\* account that is not locked, whose password verifies, that is active,
\* verified when verification is required, and for which a valid MFA code
\* came with the call when MFA is enabled; a call for which a gate is unmet
\* fails and creates no session.
C12_TokensOnlyThroughAllGates ==
    [][( /\ ret'.op = "authenticate"
         /\ ret'.ok \/ sessions' # sessions )
       => \A pw \in Passwords, tok \in MfaTokens(now) :
             /\ \A id \in Identifiers :
                   FindUser(users, id) = {} => ~Authenticate("p1", id, pw, tok)
             /\ \A uid \in DOMAIN users :
                   ~GatesHold(uid, pw, tok) => ~AuthenticateAs(uid, pw, tok)]_vars

\* A session exists from a login that passed the gates, and the last call,
\* with the right password and a wrong MFA code, was refused without one.
C12_Witness ==
    /\ ret.outcome = "INVALID_MFA"
    /\ ~ret.ok
    /\ Len(sessions) = 1
    /\ \E k \in DOMAIN audit : audit[k].event_status = "SUCCESS"

\* C13: no session row has a token that outlives the session:
\* access_token_expires <= expires_at and refresh_token_expires <= expires_at.
C13_TokensExpireWithinSession ==
    \A i \in DOMAIN sessions :
        /\ sessions[i].access_token_expires <= sessions[i].expires_at
        /\ sessions[i].refresh_token_expires <= sessions[i].expires_at

\* C14: when a call returns, the stored row carries the lock state and the
\* failure counter the call arrived at: a lock it engaged, an expired lock
\* it cleared and a failure it counted are all committed.
C14_TransitionsPersistedOnReturn ==
    [][\A uid \in DOMAIN users, pw \in Passwords, tok \in MfaTokens(now) :
          LET g == Gate(users[uid], pw, tok, now)
          IN ( /\ ret'.op = "authenticate"
               /\ \/ users'[uid].is_locked # g.user.is_locked
                  \/ users'[uid].locked_until # g.user.locked_until
                  \/ /\ g.outcome # "PASSED"
                     /\ users'[uid].failed_login_attempts
                          # g.user.failed_login_attempts )
             => ~AuthenticateAs(uid, pw, tok)]_vars

\* The arguments of the function call under examination.
Args == loc["p1"]

\* C17: verify_token returns None for a token with a bad signature, an
\* elapsed exp, a foreign audience, a foreign issuer, or of the other kind
\* than the one asked for.
C17_EveryFailureReturnsNone ==
    ret.op = "verify_token"
    => LET tk == Args.token
           wrong_kind == (Args.token_type = "refresh") # (tk.token_type = "refresh")
       IN ( \/ tk.key # "private_key"
            \/ tk.exp <= now
            \/ tk.aud # jwt_audience
            \/ tk.iss # jwt_issuer
            \/ wrong_kind )
          => ~ret.ok

CharClassErrors ==
    {"Password must contain at least one uppercase letter",
     "Password must contain at least one lowercase letter",
     "Password must contain at least one number",
     "Password must contain at least one special character"}

\* s occurs in t as a run of consecutive characters.
OccursIn(s, t) ==
    \E i \in 1..(Len(t) + 1) : \E j \in (i - 1)..Len(t) : SubSeq(t, i, j) = s

\* C18: validate_password_strength("password123", username = "jdoe") is
\* not ok and reports both a too-common password and a missing character
\* class; and any password that contains a denylisted password is reported
\* as too common.
C18_Password123IsCommon ==
    ret.op = "validate_password_strength"
    => /\ (Args.password = <<"p", "a", "s", "s", "w", "o", "r", "d", "1", "2", "3">> /\ Args.username = <<"j", "d", "o", "e">>)
          => /\ ~ret.ok
             /\ "Password is too common" \in Range(ret.msg)
             /\ Range(ret.msg) \cap CharClassErrors # {}
       /\ (\E c \in common_passwords : OccursIn(c, Lower(Args.password)))
          => "Password is too common" \in Range(ret.msg)

\* The local part of an address: what precedes its first @.
LocalPart(email) ==
    CHOOSE s \in {SubSeq(email, 1, n) : n \in 0..Len(email)} :
        /\ "@" \notin Range(s)
        /\ Len(s) = Len(email) \/ email[Len(s) + 1] = "@"

\* The checks a password fails, each stated by itself.
Violations(password, username, email) ==
    {m \in {"Password must be at least 12 characters"} :
        Len(password) < password_min_length}
    \cup {m \in {"Password must contain at least one uppercase letter"} :
            password_require_uppercase /\ Range(password) \cap Range(UpperChars) = {}}
    \cup {m \in {"Password must contain at least one lowercase letter"} :
            password_require_lowercase /\ Range(password) \cap Range(LowerChars) = {}}
    \cup {m \in {"Password must contain at least one number"} :
            password_require_numbers /\ Range(password) \cap Range(DigitChars) = {}}
    \cup {m \in {"Password must contain at least one special character"} :
            password_require_special /\ Range(password) \cap Range(SpecialChars) = {}}
    \cup {m \in {"Password is too common"} : Lower(password) \in common_passwords}
    \cup {m \in {"Password cannot contain username"} :
            username # <<>> /\ OccursIn(Lower(username), Lower(password))}
    \cup {m \in {"Password cannot contain email address"} :
            email # <<>> /\ OccursIn(Lower(LocalPart(email)), Lower(password))}
    \cup {m \in {"Password lacks sufficient character variety"} :
            Cardinality(Range(password)) < 5}

\* C19: the list validate_password_strength returns has exactly one entry
\* for each check the password fails (length, each required character
\* class, denylisted password, contains the username, contains the local
\* part of the email, fewer than 5 distinct characters), and ok is true
\* iff the list is empty.
C19_AllViolationsReported ==
    ret.op = "validate_password_strength"
    => /\ Range(ret.msg) = Violations(Args.password, Args.username, Args.email)
       /\ Len(ret.msg) = Cardinality(Range(ret.msg))
       /\ ret.ok <=> ret.msg = <<>>

\* A password that is too short, has no digit, is denylisted and contains
\* the username (in another case) was reported with all of these.
C19_Witness ==
    /\ ret.op = "validate_password_strength"
    /\ Args.password = <<"A", "d", "m", "i", "n">>
    /\ Args.username = <<"a", "d", "m", "i", "n">>
    /\ ~ret.ok
    /\ {"Password is too common", "Password cannot contain username",
        "Password must contain at least one number",
        "Password must be at least 12 characters"} \subseteq Range(ret.msg)
    /\ "Password cannot contain email address" \notin Range(ret.msg)

\* C20: check_password_history is true iff the candidate verifies against
\* none of the last password_history_count hashes of the history (none at
\* all when the count is 0).
C20_HistoryChecksLastCount ==
    ret.op = "check_password_history"
    => LET h == Args.password_history
           recent == {i \in DOMAIN h : i > Len(h) - Args.count}
       IN ret.ok <=> \A i \in recent : h[i] # hash_password(Args.new_password)

\* C15: register_user with the username or the email of a stored account
\* fails as a duplicate and leaves auth_users as it was, whatever the
\* password.
C15_DuplicateRegistrationRefused ==
    [][\A u \in RegUsernames, e \in RegEmails, pw \in RegPasswords :
          ( /\ \E i \in DOMAIN users : users[i].username = u \/ users[i].email = e
            /\ RegisterUser("p1", u, e, pw) )
          => /\ ~ret'.ok
             /\ ret'.msg = <<"Username or email already exists">>
             /\ users' = users]_vars

\* An account is stored and the last registration was refused as a
\* duplicate of it.
C15_Witness ==
    /\ ret.op = "register_user"
    /\ ret.outcome = "DUPLICATE"
    /\ Len(users) = 1
    /\ LastAudit.event_status = "DUPLICATE"

\* C16: register_user with a new username and email and a password that
\* fails the strength policy fails with every violation of the password in
\* its message and creates no account.
C16_WeakPasswordRefusedWithAllViolations ==
    [][\A u \in RegUsernames, e \in RegEmails, pw \in RegPasswords :
          ( /\ \A i \in DOMAIN users : users[i].username # u /\ users[i].email # e
            /\ Violations(pw, u, e) # {}
            /\ RegisterUser("p1", u, e, pw) )
          => /\ ~ret'.ok
             /\ Range(ret'.msg) = Violations(pw, u, e)
             /\ Len(ret'.msg) = Cardinality(Violations(pw, u, e))
             /\ users' = users]_vars

\* Next to a stored account, a registration under another name and email
\* was refused with several violations of its password.
C16_Witness ==
    /\ ret.op = "register_user"
    /\ ret.outcome = "WEAK_PASSWORD"
    /\ Len(ret.msg) >= 3
    /\ Len(users) = 1

\* C21: MFAManager.verify_token accepts a code exactly when it is the code
\* of the given secret for the current time step or for the step before or
\* after it; a code two or more steps away is rejected.
C21_MfaWindowOfOneStep ==
    ret.op = "mfa_verify_token"
    => (ret.ok <=> /\ Args.token[1] = Args.secret
                   /\ Args.token[2] \in {now - 1, now, now + 1})

\* The code of the next time step was accepted.
C21_Witness ==
    /\ ret.op = "mfa_verify_token"
    /\ Args.token = totp_at(Args.secret, now + 1)
    /\ ret.ok

\* C22: for a hash h made by hash_password(q), verify_password(pw, h)
\* returns (it does not raise), true when pw = q and false when pw # q.
C22_VerifyMatchesHash ==
    ret.op = "verify_password"
    => \A q \in Passwords \cup {OversizedPassword} :
          Args.hash = hash_password(q)
          => /\ ret.outcome # "raised"
             /\ ret.ok <=> Args.password = q

\* C23: an authenticate call on an account with is_locked set and no
\* locked_until fails and leaves is_locked set.
C23_LockWithoutExpiryStays ==
    [][\A uid \in DOMAIN users :
          ( /\ users[uid].is_locked
            /\ users[uid].locked_until = NoTime
            /\ ret'.ok \/ ~users'[uid].is_locked )
          => \A pw \in Passwords, tok \in MfaTokens(now) :
                ~AuthenticateAs(uid, pw, tok)]_vars

\* C24: a cache entry never outlives its session: the key of a session is
\* gone from the cache by the session's expires_at, also when it was written
\* by the read-through path of verify_session, and verify_session returns
\* no claims for a session whose expires_at has passed.
C24_CacheEntryWithinSessionLife ==
    /\ [](\A k \in DOMAIN cache : cache[k] <= sessions[k].expires_at)
    /\ [][(ret' # ret /\ ret'.op = "verify_session" /\ ret'.ok)
            => sessions[ret'.session_id].expires_at > now]_vars

\* The durable row of session_id is active and its expires_at is in the
\* future.
LiveRow(session_id) ==
    \E i \in DOMAIN sessions : /\ sessions[i].session_id = session_id
                               /\ sessions[i].is_active
                               /\ sessions[i].expires_at > now

\* C25: verify_session with a valid access token answers from the cache when
\* the key is there; on a miss it returns the claims iff the durable row of
\* the session is active and unexpired, and then it has set last_activity
\* and stored the key again, so that the next call is a hit; otherwise it
\* returns None and the cache stays as it was.
C25_ReadThrough ==
    [][\A tok \in PresentableTokens(sessions) :
          ( /\ VerifySession("p1", tok)
            /\ JWT_verify_token(tok, "access", now) )
          => LET sid == tok.session_id IN
             IF CacheHit(cache, sid)
             THEN /\ ret'.ok /\ ret'.session_id = sid
                  /\ sessions' = sessions
                  /\ cache' = cache
             ELSE IF LiveRow(sid)
             THEN /\ ret'.ok /\ ret'.session_id = sid
                  /\ sessions' = [sessions EXCEPT ![sid].last_activity = now]
                  /\ CacheHit(cache', sid)
                  /\ \A k \in DOMAIN cache : k \in DOMAIN cache' /\ cache'[k] = cache[k]
             ELSE /\ ReturnValue(ret') = ReturnValue(VerifyReturn("None", NoSession))
                  /\ sessions' = sessions
                  /\ cache' = cache]_vars

\* verify_session returned the claims after a miss, and the key of the
\* session is in the cache again.
C25_Witness ==
    /\ ret.outcome = "claims_from_database"
    /\ CacheHit(cache, ret.session_id)
    /\ sessions[ret.session_id].is_active

\* C26: a call on an account that is locked with locked_until in the future
\* fails with the message that tells the seconds left until locked_until,
\* whatever password and code it carries, and leaves the user rows (so
\* failed_login_attempts, is_locked and locked_until) and the sessions as they
\* were: a call made during a lock does not extend it.
C26_LockedCallChangesNothing ==
    [][\A uid \in DOMAIN users :
          ( /\ users[uid].is_locked
            /\ users[uid].locked_until # NoTime
            /\ users[uid].locked_until > now
            /\ \/ users' # users
               \/ sessions' # sessions
               \/ ReturnValue(ret') #
                     << FALSE,
                        <<"Account locked. Try again in seconds",
                          users[uid].locked_until - now>>,
                        NoSession, FALSE >> )
          => \A pw \in Passwords, tok \in MfaTokens(now) :
                ~AuthenticateAs(uid, pw, tok)]_vars

\* A call was refused one second before the end of a lock that max_login_attempts
\* wrong passwords engaged, and the lock is still the one they set.
C26_Witness ==
    \E uid \in DOMAIN users :
        /\ ret.outcome = "ACCOUNT_LOCKED"
        /\ ret.msg = <<"Account locked. Try again in seconds", 1>>
        /\ LastAudit = AuditEntry(uid, "ACCOUNT_LOCKED")
        /\ users[uid].is_locked
        /\ users[uid].locked_until = now + 1
        /\ users[uid].failed_login_attempts = max_login_attempts

\* password_expiry_days > 0 and the whole days since password_changed_at
\* exceed it.
PasswordExpired(uid) ==
    /\ password_expiry_days > 0
    /\ (now - users[uid].password_changed_at) \div SecondsPerDay
          > password_expiry_days

\* C28: a call that passes every gate succeeds whether or not the password
\* has expired; it returns (and stores) must_change_password true when the
\* password has expired and leaves the flag as it was when it has not.
C28_ExpiryOnlySetsFlag ==
    [][\A uid \in DOMAIN users :
          LET flag == PasswordExpired(uid) \/ users[uid].must_change_password
          IN ( /\ ret'.op = "authenticate"
               /\ \/ ~ret'.ok
                  \/ ret'.must_change_password # flag
                  \/ users'[uid].must_change_password # flag )
             => \A pw \in Passwords :
                   GatesHold(uid, pw, NoToken)
                      => ~AuthenticateAs(uid, pw, NoToken)]_vars

\* The account whose password was a second over a day old logged in twice:
\* without the flag while the age was one day, with it on the second day.
C28_Witness ==
    /\ users[2].password_changed_at = 0 - SecondsPerDay - 1
    /\ Len(sessions) = 2
    /\ sessions[1].user_id = 2
    /\ sessions[1].created_at < SecondsPerDay - 1
    /\ sessions[2].user_id = 2
    /\ ret.outcome = "SUCCESS"
    /\ ret.session_id = 2
    /\ ret.must_change_password
    /\ users[2].must_change_password
    /\ now = SecondsPerDay - 1

\* C27: a successful authenticate call adds exactly one session row, owned
\* by the account and active, whose session_id is the one in both returned
\* tokens; and a verify_session call made afterwards with the returned access
\* token returns the claims as long as that row is active and unexpired.
C27_SessionBoundTokensVerify ==
    /\ [][\A uid \in DOMAIN users, pw \in Passwords, tok \in ConcTokens(now) :
            (AuthenticateAs(uid, pw, tok) /\ ret'.ok)
            => /\ Len(sessions') = Len(sessions) + 1
               /\ \A i \in DOMAIN sessions :
                     sessions'[i] = sessions[i]
                     \/ sessions'[i] = [sessions[i] EXCEPT !.is_active = FALSE]
               /\ LET row == sessions'[Len(sessions')]
                  IN /\ row.user_id = uid
                     /\ row.is_active
                     /\ row.session_id = ret'.session_id
                     /\ row.access_token.session_id = row.session_id
                     /\ row.refresh_token.session_id = row.session_id]_vars
    /\ [][( /\ ret.outcome = "SUCCESS"
            /\ sessions[ret.session_id].is_active
            /\ sessions[ret.session_id].expires_at > now
            /\ VerifySession("p1", sessions[ret.session_id].access_token) )
          => /\ ret'.ok
             /\ ret'.session_id = ret.session_id]_vars

\* C29: a successful register_user adds exactly one row, with email_verified
\* = not require_email_verification, a verification token iff verification
\* is required, and the role 'user' iff auth_roles has it; and when
\* verification is required, a login with the right password on the row as
\* registered fails with "Email not verified" and adds no session.
C29_RegisteredUserMustVerifyEmail ==
    /\ [][\A u \in RegUsernames, e \in RegEmails :
            LET row == users'[Len(users')]
                created ==
                    /\ Len(users') = Len(users) + 1
                    /\ \A i \in DOMAIN users : users'[i] = users[i]
                    /\ row.username = u /\ row.email = e
                    /\ row.email_verified = ~require_email_verification
                    /\ (row.email_verification_token # NoToken)
                          <=> require_email_verification
                    /\ \A k \in DOMAIN row.roles : row.roles[k] = "user"
                    /\ Len(row.roles) = IF "user" \in auth_roles THEN 1 ELSE 0
            IN (ret'.op = "register_user" /\ ret'.ok /\ now' = now /\ ~created)
               => \A pw \in RegPasswords : ~RegisterUser("p1", u, e, pw)]_vars
    /\ [][( /\ require_email_verification
            /\ ret'.op = "authenticate"
            /\ now' = now
            /\ \/ ReturnValue(ret') #
                     <<FALSE, <<"Email not verified">>, NoSession, FALSE>>
               \/ sessions' # sessions )
          => \A uid \in DOMAIN users, pw \in RegPasswords :
                ( /\ ~users[uid].is_locked
                  /\ users[uid].failed_login_attempts = 0
                  /\ users[uid].password_hash = hash_password(pw) )
                => ~AuthenticateAs(uid, pw, NoToken)]_vars

\* An account registered while auth_roles had the role 'user' holds it, has
\* a verification token, and its login with the right password was refused
\* for the unverified email.
C29_Witness ==
    /\ Len(users) = 1
    /\ users[1].roles = <<"user">>
    /\ users[1].email_verification_token # NoToken
    /\ ~users[1].email_verified
    /\ Len(audit) = 2
    /\ audit[1] = RegisterAudit(1, "SUCCESS")
    /\ audit[2] = AuditEntry(1, "EMAIL_NOT_VERIFIED")
    /\ ret.outcome = "EMAIL_NOT_VERIFIED"
    /\ sessions = <<>>

\* C30: the permissions claim holds each string resource:action of a
\* permission of a role of the user exactly once, and no other string.
C30_PermissionsDeduplicatedUnion ==
    ret.op = "generate_access_token"
    => LET claim == ret.msg
           held == UNION {Range(Args.roles[i].permissions) : i \in DOMAIN Args.roles}
           strings == {perm.resource \o <<":">> \o perm.action : perm \in held}
       IN /\ \A s \in strings :
                Cardinality({k \in DOMAIN claim : claim[k] = s}) = 1
          /\ \A k \in DOMAIN claim : claim[k] \in strings

\* The token of a user holding 'admin' and 'user', which share the
\* permission p:r: the claim has p:r and p:w, each once.
C30_Witness ==
    /\ ret.op = "generate_access_token"
    /\ Len(Args.roles) = 2
    /\ Args.roles[1].name = "admin"
    /\ Args.roles[2].name = "user"
    /\ ret.msg = << <<"p", ":", "w">>, <<"p", ":", "r">> >>

\* C31: the audit log only grows: a step of register_user, authenticate or
\* verify_session leaves every entry written so far where and as it was.
C31_AuditLogAppendOnly ==
    [][/\ Len(audit') >= Len(audit)
       /\ \A k \in DOMAIN audit : audit'[k] = audit[k]]_vars

\* The log holds a failed login, a registration and a successful login, in
\* the order in which they were written.
C31_Witness ==
    /\ Len(audit) = 3
    /\ audit[1].event_status = "INVALID_PASSWORD"
    /\ audit[2] = RegisterAudit(2, "SUCCESS")
    /\ audit[3] = AuditEntry(1, "SUCCESS")
    /\ ret.outcome = "claims"

\* C32: a call in which a statement of the durable store raises returns a
\* failure with no tokens whose message is not the one of a credentials
\* failure; the call is over with that (nothing of it is left to run
\* again), and the store holds what was committed before: no session row or audit row is
\* added, and the user rows change only by a commit of a refusal that went
\* through before _log_audit raised.
C32_StoreFailureIsDistinctAndRolledBack ==
    [][( /\ ret'.op = "authenticate"
         /\ ret'.outcome = "EXCEPTION"
         /\ pc'["p1"] = "idle"
         /\ pc["p1"] # "idle" \/ ret' # ret )
       => /\ ~ret'.ok
          /\ ret'.session_id = NoSession
          /\ ret'.msg # <<"Invalid credentials">>
          /\ loc'["p1"] = <<>>
          /\ sessions' = sessions
          /\ audit' = audit
          /\ \/ users' = users
             \/ /\ pc["p1"] = "gates"
                /\ ~verify_password(loc["p1"].password, loc["p1"].loaded.password_hash)
                   \/ loc["p1"].loaded.mfa_enabled]_vars

\* The count query raised in a call that had passed the gates of an account
\* whose lock had run out: the unlock was not committed.
C32_Witness ==
    /\ ret.outcome = "EXCEPTION"
    /\ ret.lock_cleared
    /\ users[1].is_locked
    /\ users[1].failed_login_attempts = max_login_attempts
    /\ pc["p1"] = "idle"
    /\ sessions = <<>>
    /\ audit = <<>>

\* C33: in every committed state, an account whose failed_login_attempts
\* has reached max_login_attempts is locked.
C33_CounterAtThresholdMeansLocked ==
    \A uid \in DOMAIN users :
        users[uid].failed_login_attempts >= max_login_attempts
           => users[uid].is_locked

\* C34: an authenticate call returns success exactly when it has committed
\* a new session row; in particular no call that returns a failure leaves a
\* new, active session row behind.
C34_ReturnAgreesWithStore ==
    [][\A id \in ConcIdentifiers, pw \in Passwords, tok \in ConcTokens(now) :
          Authenticate("p1", id, pw, tok)
          => /\ ret'.ok <=> Len(sessions') = Len(sessions) + 1
             /\ ~ret'.ok => sessions' = sessions]_vars

\* C35: an authenticate call sets a positive failed_login_attempts to 0 only
\* when it returns success or when it found the row locked with the lock
\* run out; a call that ends at the inactive-account, email-not-verified or
\* MFA-token-required gate without such an unlock leaves the counter as it was.
C35_ResetOnlyBySuccessOrUnlock ==
    [][\A id \in ConcIdentifiers, pw \in Passwords, tok \in ConcTokens(now) :
          Authenticate("p1", id, pw, tok)
          => \A uid \in DOMAIN users :
                /\ (/\ users[uid].failed_login_attempts > 0
                    /\ users'[uid].failed_login_attempts = 0)
                   => ret'.ok \/ users[uid].is_locked
                /\ (/\ ret'.outcome \in {"ACCOUNT_INACTIVE", "EMAIL_NOT_VERIFIED",
                                         "MFA_REQUIRED"}
                    /\ ~users[uid].is_locked)
                   => users'[uid].failed_login_attempts
                         = users[uid].failed_login_attempts]_vars

\* C36: for an account that is not active and not locked out, a call with
\* a wrong password counts as a failed attempt (the counter, restarted if
\* a lock had run out, goes up by one and the account is locked when it
\* reaches max_login_attempts), and the call ends with the account-inactive
\* result only when the password is the account's password.
C36_PasswordCheckedBeforeActive ==
    [][\A id \in {"alice", "bob"}, pw \in Passwords :
          Authenticate("p1", id, pw, NoToken)
          => \A uid \in FindUser(users, id) :
                LET u == users[uid]
                    before == IF u.is_locked THEN 0 ELSE u.failed_login_attempts
                    right == u.password_hash = hash_password(pw)
                IN (~u.is_active /\ ~(u.is_locked /\ u.locked_until > now))
                   => /\ ret'.outcome = "ACCOUNT_INACTIVE" <=> right
                      /\ ~right
                         => /\ users'[uid].failed_login_attempts = before + 1
                            /\ users'[uid].is_locked
                                  <=> before + 1 >= max_login_attempts
                            /\ ret'.outcome \in {"INVALID_PASSWORD", "MAX_ATTEMPTS"}]_vars

\* A deactivated account was told so on the right password and was then
\* locked by wrong passwords.
C36_Witness ==
    /\ ret.op = "authenticate"
    /\ ret.outcome = "MAX_ATTEMPTS"
    /\ ~users[1].is_active
    /\ users[1].is_locked
    /\ \E k \in DOMAIN audit : /\ audit[k].user_id = 1
                               /\ audit[k].event_status = "ACCOUNT_INACTIVE"

\* C37: an authenticate call that resolves to the account uid leaves every
\* other account's row as it was, leaves every session of another account
\* as it was in the table and in the cache, and turns at most one session
\* from active to inactive.
C37_OnlyOwnStateChanges ==
    [][\A id \in {"alice", "bob"}, pw \in Passwords :
          Authenticate("p1", id, pw, NoToken)
          => \A uid \in FindUser(users, id) :
                /\ \A o \in DOMAIN users \ {uid} : users'[o] = users[o]
                /\ \A i \in DOMAIN sessions :
                      sessions[i].user_id # uid
                      => /\ sessions'[i] = sessions[i]
                         /\ CacheHit(cache, i)
                               => CacheHit(cache', i) /\ cache'[i] = cache[i]
                /\ Cardinality({i \in DOMAIN sessions :
                                  /\ sessions[i].is_active
                                  /\ ~sessions'[i].is_active}) <= 1]_vars

\* A login of one account has replaced its older session while a session of
\* the other account, opened before that login, is still active and cached.
C37_Witness ==
    /\ ret.op = "authenticate"
    /\ ret.ok
    /\ \E i, j \in DOMAIN sessions :
          /\ i < ret.session_id
          /\ j < ret.session_id
          /\ sessions[i].user_id = sessions[ret.session_id].user_id
          /\ ~sessions[i].is_active
          /\ sessions[j].user_id # sessions[ret.session_id].user_id
          /\ sessions[j].is_active
          /\ CacheHit(cache, j)

\* C38: when authenticate fails at the commit of the new session after it
\* has deleted the cache key of the oldest session, that session is still
\* active in the table; and verify_session with the access token of an
\* active session whose cache key is missing, the token still verifying,
\* returns the claims from the table and caches the session again.
C38_RolledBackEvictionStaysVerifiable ==
    /\ [][( /\ pc["p1"] = "commit"
            /\ pc'["p1"] = "idle"
            /\ loc["p1"].oldest # NoSession )
          => /\ ret'.outcome = "EXCEPTION"
             /\ sessions' = sessions
             /\ sessions'[loc["p1"].oldest].is_active
             /\ ~CacheHit(cache', loc["p1"].oldest)]_vars
    /\ [][\A i \in DOMAIN sessions :
            ( /\ sessions[i].is_active
              /\ ~CacheHit(cache, i)
              /\ JWT_verify_token(sessions[i].access_token, "access", now)
              /\ VerifySession("p1", sessions[i].access_token) )
            => /\ ret'.ok
               /\ ret'.outcome = "claims_from_database"
               /\ ret'.session_id = i
               /\ sessions'[i].is_active
               /\ CacheHit(cache', i)]_vars

\* verify_session has answered from the table for a session that is active
\* and is the owner's only one: its cache key had been deleted by a login
\* that then failed at its commit.
C38_Witness ==
    /\ ret.op = "verify_session"
    /\ ret.outcome = "claims_from_database"
    /\ sessions[ret.session_id].is_active
    /\ CacheHit(cache, ret.session_id)
    /\ \A j \in DOMAIN sessions :
          sessions[j].user_id = sessions[ret.session_id].user_id
          => j = ret.session_id

\* C39: with register_user calls interleaved, no two rows of auth_users
\* share a username or an email; and a call that reaches its commit while
\* a row with its username or its email is already stored returns a failure
\* and adds no row, while a call that returns success has added exactly its
\* own row.
C39_UniqueUsersUnderConcurrency ==
    /\ [](\A i, j \in DOMAIN users :
             i # j => /\ users[i].username # users[j].username
                      /\ users[i].email # users[j].email)
    /\ [][\A p \in Procs :
            (pc[p] = "reg_commit" /\ pc'[p] = "idle")
            => IF \E i \in DOMAIN users :
                     \/ users[i].username = loc[p].user.username
                     \/ users[i].email = loc[p].user.email
               THEN ~ret'.ok /\ users' = users
               ELSE ret'.ok /\ users' = Append(users, loc[p].user)]_vars

\* Two calls with the same email had both passed the existence query; one
\* has stored its row and the other has just been refused at its commit.
C39_Witness ==
    /\ ret.op = "register_user"
    /\ ret.outcome = "EXCEPTION"
    /\ Len(users) = 1
    /\ \A p \in Procs : pc[p] = "idle"
====
